---- MODULE Spec2Model ----
(***************************************************************************)
(* Replication control plane of qserv (core/modules/replica):              *)
(*   ChunkLocker, WorkerProcessor / WorkerRequest, MessengerConnector,     *)
(*   Request (DeleteRequest) and Job (fan-out jobs).                       *)
(*                                                                         *)
(* Every method that runs under the object's mutex is one atomic action;   *)
(* the unlocked "is it FINISHED already?" test that precedes the lock in   *)
(* the handlers is a step of its own, so that the races between handlers   *)
(* are the races of the code.                                              *)
(***************************************************************************)
EXTENDS Integers, Sequences, FiniteSets, Bags, TLC

VARIABLES
    \* ---- ChunkLocker
    _chunk2owner,           \* ChunkLocker::_chunk2owner : map Chunk -> owner
    lockerCall,             \* the last call made on the locker and what it returned
    \* ---- WorkerProcessor
    workerRequests,         \* the WorkerRequest objects made by the factory, by id
    _newRequests,           \* WorkerProcessor::_newRequests (priority queue), ids
    _inProgressRequests,    \* WorkerProcessor::_inProgressRequests (list), ids
    _finishedRequests,      \* WorkerProcessor::_finishedRequests (list), ids
    response,               \* the response object filled by the last enqueue call
    processorState,         \* WorkerProcessor::_state
    _threads,               \* WorkerProcessor::_threads, the WorkerProcessorThread objects
    processorCall,          \* the last call of run, stop or fetchNextForProcessing
    \* ---- MessengerConnector
    _state,                 \* MessengerConnector::_state
    _requests,              \* MessengerConnector::_requests (list), ids, front first
    _currentRequest,        \* MessengerConnector::_currentRequest, NoId when null
    asyncOps,               \* the asynchronous operations whose handler has not run yet
    isConnected,              \* _socket is connected to the worker
    request2notify,         \* wrappers a handler took out under the mutex, not notified yet
    notified,               \* the onFinish callbacks made so far
    cancelled,              \* the ids for which cancel() has returned
    onWire,                 \* requests written on the present connection and not answered
    requeued,               \* the request put back by requestSent and not written again yet
    numSubmitted,           \* how many requests sendImpl has registered
    sendThrew,              \* the last call of sendImpl threw std::logic_error
    faults,                 \* how many I/O failures, cancellations and stops have happened
    \* ---- Request and Job
    focus,                  \* which object is exercised: "deleteRequest", "job" or "none"
    deleteRequest,          \* the Request (a DeleteRequest)
    requestEntered,         \* handlers of the request that wait for its mutex
    job,                    \* the Job
    children,               \* the child requests of the job, by number
    jobEntered,             \* handlers of the job that wait for its mutex
    \* ---- the mutexes of the objects
    callStack               \* of each thread: the methods it is in, innermost last

lockerVars == <<_chunk2owner, lockerCall>>
procVars == <<processorState, _threads, processorCall>>
workerVars == <<workerRequests, _newRequests, _inProgressRequests, _finishedRequests, response,
                procVars>>
connVars == <<_state, _requests, _currentRequest, asyncOps, isConnected, request2notify, notified,
              cancelled, onWire, requeued, numSubmitted, sendThrew, faults>>
requestVars == <<deleteRequest, requestEntered>>
jobVars == <<job, children, jobEntered>>
ctlVars == <<focus, requestVars, jobVars>>
mutexVars == <<callStack>>
vars == <<lockerVars, workerVars, connVars, ctlVars, mutexVars>>

Range(s) == {s[i] : i \in DOMAIN s}

\* no request: a null pointer, an id that is not set
NoId == 0

RemoveId(s, id) == SelectSeq(s, LAMBDA x : x # id)

(***************************************************************************)
(* ChunkLocker                                                             *)
(***************************************************************************)

\* how many chunk numbers and owners the locker is exercised with
NumChunks == 2
NumOwners == 2

Families == {"F", "G"}

Chunks == [databaseFamily : Families, number : 1..NumChunks]

EmptyOwner == ""

Owners == {ToString(i) : i \in 1..NumOwners}

NoChunk == [databaseFamily |-> "", number |-> 0]

\* a call on the locker: what was called, what it returned (ret), the chunks a
\* release(owner) returned, and whether it threw std::invalid_argument
LockerCall(op, chunk, owner, ret, released, threw) ==
    [op |-> op, chunk |-> chunk, owner |-> owner, ret |-> ret,
     released |-> released, threw |-> threw]

NoCall == LockerCall("none", NoChunk, EmptyOwner, FALSE, {}, FALSE)

LockerInit ==
    /\ _chunk2owner = <<>>
    /\ lockerCall = NoCall

\* std::map::erase of one key
MapErase(m, keys) == [k \in (DOMAIN m) \ keys |-> m[k]]

\* std::map::operator[] assignment
MapPut(m, k, v) == [x \in (DOMAIN m) \cup {k} |-> IF x = k THEN v ELSE m[x]]

isLocked(chunk) == chunk \in DOMAIN _chunk2owner

\* the value lock(chunk, owner) returns and the table it leaves, as a mutant
\* that takes the chunk over from another owner
lockResultTakeOver(chunk, owner) ==
    [ret |-> TRUE, table |-> MapPut(_chunk2owner, chunk, owner)]

\* the value lock(chunk, owner) returns and the table it leaves
lockResult(chunk, owner) ==
    IF isLocked(chunk)
    THEN [ret |-> (_chunk2owner[chunk] = owner), table |-> _chunk2owner]
    ELSE [ret |-> TRUE, table |-> MapPut(_chunk2owner, chunk, owner)]

\* lock(chunk, owner), as a mutant that takes the empty string for an owner
lockEmptyOwner(chunk, owner) ==
    /\ _chunk2owner' = lockResult(chunk, owner).table
    /\ lockerCall' = LockerCall("lock", chunk, owner, lockResult(chunk, owner).ret, {}, FALSE)

\* bool ChunkLocker::lock(Chunk const&, std::string const& owner)
lock(chunk, owner) ==
    IF owner = EmptyOwner
    THEN /\ lockerCall' = LockerCall("lock", chunk, owner, FALSE, {}, TRUE)
         /\ UNCHANGED _chunk2owner
    ELSE /\ _chunk2owner' = lockResult(chunk, owner).table
         /\ lockerCall' = LockerCall("lock", chunk, owner, lockResult(chunk, owner).ret, {}, FALSE)

\* bool ChunkLocker::release(Chunk const&) and release(Chunk const&, std::string& owner)
releaseChunk(chunk) ==
    /\ _chunk2owner' = MapErase(_chunk2owner, {chunk})
    /\ lockerCall' = LockerCall("release", chunk,
                                IF isLocked(chunk) THEN _chunk2owner[chunk] ELSE EmptyOwner,
                                isLocked(chunk), {}, FALSE)

\* std::list<Chunk> ChunkLocker::release(std::string const& owner)
releaseOwner(owner) ==
    IF owner = EmptyOwner
    THEN /\ lockerCall' = LockerCall("releaseOwner", NoChunk, owner, FALSE, {}, TRUE)
         /\ UNCHANGED _chunk2owner
    ELSE LET mine == {c \in DOMAIN _chunk2owner : _chunk2owner[c] = owner}
         IN  /\ _chunk2owner' = MapErase(_chunk2owner, mine)
             /\ lockerCall' = LockerCall("releaseOwner", NoChunk, owner, TRUE, mine, FALSE)

LockerNext ==
    /\ \/ \E chunk \in Chunks, owner \in Owners \cup {EmptyOwner} : lock(chunk, owner)
       \/ \E chunk \in Chunks : releaseChunk(chunk)
       \/ \E owner \in Owners \cup {EmptyOwner} : releaseOwner(owner)
    /\ UNCHANGED <<workerVars, connVars, ctlVars, mutexVars>>

(***************************************************************************)
(* WorkerProcessor and WorkerRequest                                       *)
(***************************************************************************)

\* how many requests the worker accepts and how many processing threads it runs
MaxWorkerRequests == 2
NumThreads == 2


WorkerIds == 1..MaxWorkerRequests

\* a response of the worker: status, extended status, the id of the request it
\* duplicates (if any) and the id of the request it answers
Response(status, status_ext, duplicate_request_id, id) ==
    [status |-> status, status_ext |-> status_ext,
     duplicate_request_id |-> duplicate_request_id, id |-> id]

NoResponse == Response("NONE", "NONE", NoId, NoId)

\* a WorkerProcessorThread : _thread is set, the flag _stop, the request the
\* thread function works on, and how many times the thread function has ended
\* without having made its call of processorThreadStopped yet
NewThread ==
    [isRunning |-> FALSE, _stop |-> FALSE, request |-> NoId, stopped |-> 0, rolledBack |-> FALSE]

ProcessorCall(op, returned) == [op |-> op, returned |-> returned]

WorkerInit ==
    /\ workerRequests = <<>>
    /\ _newRequests = {}
    /\ _inProgressRequests = <<>>
    /\ _finishedRequests = <<>>
    /\ response = NoResponse
    /\ processorState = "STATE_IS_STOPPED"
    /\ _threads = <<>>
    /\ processorCall = ProcessorCall("none", NoId)

\* the id the controller gives its next request (Generators::uniqueId)
nextWorkerId == Len(workerRequests) + 1

\* ::ifDuplicateRequest : is the queued request p on the target of the new request
ifDuplicateRequest(p, request) ==
    /\ workerRequests[p].type \in {"REPLICATE", "DELETE"}
    /\ workerRequests[p].database = request.database
    /\ workerRequests[p].chunk = request.chunk

\* the scan, as a mutant that forgets the in-progress list
duplicatesOfNewOnly(request) == {p \in _newRequests : ifDuplicateRequest(p, request)}

\* the requests the scan of enqueueForReplication / enqueueForDeletion may stop at:
\* the new queue is scanned first (in the order of the priority queue), then the
\* in-progress list from its front
duplicatesOf(request) ==
    LET inNew == {p \in _newRequests : ifDuplicateRequest(p, request)}
        inProgress == {i \in DOMAIN _inProgressRequests :
                          ifDuplicateRequest(_inProgressRequests[i], request)}
    IN  IF inNew # {} THEN inNew
        ELSE IF inProgress # {}
             THEN {_inProgressRequests[CHOOSE i \in inProgress : \A j \in inProgress : i <= j]}
             ELSE {}

\* WorkerRequestFactory::create...Request + _newRequests.push + the QUEUED response;
\* valid = FALSE is the factory throwing std::invalid_argument
admit(type, request, valid) ==
    IF valid
    THEN /\ workerRequests' = Append(workerRequests,
                [type |-> type, database |-> request.database, chunk |-> request.chunk,
                 priority |-> request.priority, _status |-> "STATUS_NONE"])
         /\ _newRequests' = _newRequests \cup {nextWorkerId}
         /\ response' = Response("QUEUED", "NONE", NoId, nextWorkerId)
         /\ UNCHANGED <<_inProgressRequests, _finishedRequests>>
    ELSE /\ response' = Response("BAD", "INVALID_PARAM", NoId, nextWorkerId)
         /\ UNCHANGED <<workerRequests, _newRequests, _inProgressRequests, _finishedRequests>>

\* the body shared by enqueueForReplication and enqueueForDeletion
enqueueChecked(type, request, valid) ==
    IF duplicatesOf(request) # {}
    THEN \E p \in duplicatesOf(request) :
            /\ response' = Response("BAD", "DUPLICATE", p, nextWorkerId)
            /\ UNCHANGED <<workerRequests, _newRequests, _inProgressRequests, _finishedRequests>>
    ELSE admit(type, request, valid)

\* the (database, chunk, priority) triples the requests are drawn from
WorkerTargets ==
    { [database |-> "db1", chunk |-> 1, priority |-> 0],
      [database |-> "db1", chunk |-> 1, priority |-> 1],
      [database |-> "db1", chunk |-> 2, priority |-> 0],
      [database |-> "db2", chunk |-> 1, priority |-> 1] }

\* WorkerProcessor::enqueueForReplication
enqueueForReplication(request, valid) ==
    /\ nextWorkerId \in WorkerIds
    /\ enqueueChecked("REPLICATE", request, valid)

\* WorkerProcessor::enqueueForDeletion
enqueueForDeletion(request, valid) ==
    /\ nextWorkerId \in WorkerIds
    /\ enqueueChecked("DELETE", request, valid)

\* WorkerProcessor::enqueueForFind
enqueueForFind(request, valid) ==
    /\ nextWorkerId \in WorkerIds
    /\ admit("FIND", request, valid)

setStatus(id, status) == [workerRequests EXCEPT ![id]._status = status]

\* fetchNextForProcessing, as a mutant that takes any request of the new queue
fetchNextForProcessingAny ==
    /\ Len(_inProgressRequests) < NumThreads
    /\ \E id \in _newRequests :
          /\ workerRequests[id]._status = "STATUS_NONE"
          /\ _newRequests' = _newRequests \ {id}
          /\ workerRequests' = setStatus(id, "STATUS_IN_PROGRESS")
          /\ _inProgressRequests' = Append(_inProgressRequests, id)
    /\ UNCHANGED <<_finishedRequests, response>>

\* WorkerProcessor::fetchNextForProcessing, called by an idle processing thread
fetchNextForProcessing ==
    /\ Len(_inProgressRequests) < NumThreads
    /\ \E id \in _newRequests :
          /\ \A other \in _newRequests :
                workerRequests[other].priority <= workerRequests[id].priority
          /\ workerRequests[id]._status = "STATUS_NONE"
          /\ _newRequests' = _newRequests \ {id}
          /\ workerRequests' = setStatus(id, "STATUS_IN_PROGRESS")
          /\ _inProgressRequests' = Append(_inProgressRequests, id)
    /\ UNCHANGED <<_finishedRequests, response>>

\* WorkerRequest::execute, the call that ends the processing
execute(id) ==
    /\ id \in Range(_inProgressRequests)
    /\ \/ /\ workerRequests[id]._status = "STATUS_IN_PROGRESS"
          /\ \E done \in {"STATUS_SUCCEEDED", "STATUS_FAILED"} :
                workerRequests' = setStatus(id, done)
       \/ /\ workerRequests[id]._status = "STATUS_IS_CANCELLING"
          /\ workerRequests' = setStatus(id, "STATUS_CANCELLED")
    /\ UNCHANGED <<_newRequests, _inProgressRequests, _finishedRequests, response>>

\* WorkerProcessor::processingFinished
processingFinished(id) ==
    /\ id \in Range(_inProgressRequests)
    /\ workerRequests[id]._status \in {"STATUS_SUCCEEDED", "STATUS_FAILED", "STATUS_CANCELLED"}
    /\ _inProgressRequests' = RemoveId(_inProgressRequests, id)
    /\ _finishedRequests' = Append(_finishedRequests, id)
    /\ UNCHANGED <<workerRequests, _newRequests, response>>

\* WorkerRequest::stop, as a mutant that marks the request failed
WorkerRequest_stopFails(status) == "STATUS_FAILED"

\* WorkerRequest::stop : the status it leaves, whatever the status it finds
WorkerRequest_stop(status) == "STATUS_NONE"

\* WorkerProcessor::processingRefused, for a request its thread gives back
processingRefused(id) ==
    /\ id \in Range(_inProgressRequests)
    /\ workerRequests' = setStatus(id, WorkerRequest_stop(workerRequests[id]._status))
    /\ _inProgressRequests' = RemoveId(_inProgressRequests, id)
    /\ _newRequests' = _newRequests \cup {id}
    /\ UNCHANGED <<_finishedRequests, response>>

\* WorkerRequest::cancel, as a mutant that cancels a request under processing at once
WorkerRequest_cancelAtOnce(status) ==
    CASE status \in {"STATUS_NONE", "STATUS_CANCELLED", "STATUS_IN_PROGRESS", "STATUS_IS_CANCELLING"}
            -> "STATUS_CANCELLED"
      [] OTHER -> status

\* WorkerRequest::cancel : the status it leaves, given the status it finds
WorkerRequest_cancel(status) ==
    CASE status \in {"STATUS_IN_PROGRESS", "STATUS_IS_CANCELLING"} -> "STATUS_IS_CANCELLING"
      [] status \in {"STATUS_NONE", "STATUS_CANCELLED"} -> "STATUS_CANCELLED"
      [] OTHER -> status

\* WorkerProcessor::dequeueOrCancelImpl
dequeueOrCancelImpl(id) ==
    /\ id \in DOMAIN workerRequests
    /\ IF id \in _newRequests
       THEN /\ workerRequests' = setStatus(id, WorkerRequest_cancel(workerRequests[id]._status))
            /\ _newRequests' = _newRequests \ {id}
            /\ _finishedRequests' = Append(_finishedRequests, id)
            /\ UNCHANGED _inProgressRequests
       ELSE IF id \in Range(_inProgressRequests)
            THEN /\ workerRequests' = setStatus(id, WorkerRequest_cancel(workerRequests[id]._status))
                 /\ UNCHANGED <<_newRequests, _inProgressRequests, _finishedRequests>>
            ELSE UNCHANGED <<workerRequests, _newRequests, _inProgressRequests, _finishedRequests>>
    /\ UNCHANGED response

WorkerNext ==
    /\ \/ \E request \in WorkerTargets, valid \in BOOLEAN : enqueueForReplication(request, valid)
       \/ \E request \in WorkerTargets, valid \in BOOLEAN : enqueueForDeletion(request, valid)
       \/ \E request \in WorkerTargets, valid \in BOOLEAN : enqueueForFind(request, valid)
       \/ fetchNextForProcessing
       \/ \E id \in WorkerIds : execute(id)
       \/ \E id \in WorkerIds : processingFinished(id)
       \/ \E id \in WorkerIds : processingRefused(id)
       \/ \E id \in WorkerIds : dequeueOrCancelImpl(id)
    /\ UNCHANGED <<procVars, lockerVars, connVars, ctlVars, mutexVars>>

(***************************************************************************)
(* WorkerProcessor with its processing threads                             *)
(*                                                                         *)
(* The methods of the processor run under its mutex, so each one is a      *)
(* step.  A processing thread is the loop its class describes: it fetches  *)
(* a request, executes it and reports it finished; told to stop, it gives  *)
(* back the request it has, leaves the loop and tells the processor.       *)
(***************************************************************************)

\* how many times a thread function may have ended without the processor
\* having been told yet
MaxStopped == 2

ThreadIds == 1..NumThreads

\* WorkerProcessorThread::run : "create and run the thread (if none is still running)"
WorkerProcessorThread_run(t) == IF t.isRunning THEN t ELSE [t EXCEPT !.isRunning = TRUE]

\* WorkerProcessorThread::stop : "tell the running thread to ... finish"
WorkerProcessorThread_stop(t) == IF t.isRunning THEN [t EXCEPT !._stop = TRUE] ELSE t

\* WorkerProcessor::run
WorkerProcessor_run ==
    /\ IF processorState = "STATE_IS_STOPPED"
       THEN /\ _threads' = [i \in ThreadIds |->
                    WorkerProcessorThread_run(IF _threads = <<>> THEN NewThread ELSE _threads[i])]
            /\ processorState' = "STATE_IS_RUNNING"
       ELSE UNCHANGED <<processorState, _threads>>
    /\ processorCall' = ProcessorCall("run", NoId)
    /\ UNCHANGED <<workerRequests, _newRequests, _inProgressRequests, _finishedRequests, response>>

\* WorkerProcessor::stop
WorkerProcessor_stop ==
    /\ IF processorState = "STATE_IS_RUNNING"
       THEN /\ _threads' = [i \in DOMAIN _threads |-> WorkerProcessorThread_stop(_threads[i])]
            /\ processorState' = "STATE_IS_STOPPING"
       ELSE UNCHANGED <<processorState, _threads>>
    /\ processorCall' = ProcessorCall("stop", NoId)
    /\ UNCHANGED <<workerRequests, _newRequests, _inProgressRequests, _finishedRequests, response>>

\* the processing thread i is in its loop and has no request
idle(i) ==
    /\ i \in DOMAIN _threads
    /\ _threads[i].isRunning
    /\ _threads[i].request = NoId

\* the processing thread i works on a request
busy(i) ==
    /\ i \in DOMAIN _threads
    /\ _threads[i].isRunning
    /\ _threads[i].request # NoId

\* the thread calls fetchNextForProcessing and gets a request
WorkerProcessorThread_fetch(i) ==
    /\ idle(i)
    /\ fetchNextForProcessing
    /\ LET request == _inProgressRequests'[Len(_inProgressRequests')]
       IN  /\ _threads' = [_threads EXCEPT ![i].request = request]
           /\ processorCall' = ProcessorCall("fetchNextForProcessing", request)
    /\ UNCHANGED processorState

\* WorkerProcessor::fetchNextForProcessing when the new queue is empty at
\* every look the call takes before its timeout: it returns null
fetchNextForProcessingTimeout(i) ==
    /\ idle(i)
    /\ _newRequests = {}
    /\ processorCall' = ProcessorCall("fetchNextForProcessing", NoId)
    /\ UNCHANGED <<workerRequests, _newRequests, _inProgressRequests, _finishedRequests, response,
                   processorState, _threads>>

\* the thread calls WorkerRequest::execute on its request
WorkerProcessorThread_execute(i) ==
    /\ busy(i)
    /\ ~_threads[i].rolledBack
    /\ execute(_threads[i].request)
    /\ UNCHANGED procVars

\* the thread reports its request: processingFinished
WorkerProcessorThread_finished(i) ==
    /\ busy(i)
    /\ ~_threads[i].rolledBack
    /\ processingFinished(_threads[i].request)
    /\ _threads' = [_threads EXCEPT ![i].request = NoId]
    /\ UNCHANGED <<processorState, processorCall>>

\* WorkerRequest::rollback; with STATUS_IS_CANCELLING it also throws
\* WorkerRequestCancelled, with a completed status std::logic_error
WorkerRequest_rollback(status) ==
    CASE status \in {"STATUS_NONE", "STATUS_IN_PROGRESS"} -> "STATUS_NONE"
      [] status = "STATUS_IS_CANCELLING" -> "STATUS_CANCELLED"
      [] OTHER -> status

\* the thread, told to stop before its request is done, calls rollback on
\* it, under the mutex of the request only; when rollback throws
\* WorkerRequestCancelled the request is done and is reported as finished
WorkerProcessorThread_rollback(i) ==
    /\ busy(i)
    /\ _threads[i]._stop
    /\ ~_threads[i].rolledBack
    /\ LET status == workerRequests[_threads[i].request]._status
       IN  /\ status \in {"STATUS_IN_PROGRESS", "STATUS_IS_CANCELLING"}
           /\ workerRequests' = setStatus(_threads[i].request, WorkerRequest_rollback(status))
           /\ _threads' = [_threads EXCEPT ![i].rolledBack = (status = "STATUS_IN_PROGRESS")]
    /\ UNCHANGED <<_newRequests, _inProgressRequests, _finishedRequests, response,
                   processorState, processorCall>>

\* the thread, told to stop before its request is done, gives it back:
\* processingRefused, after rollback has returned or straight away
WorkerProcessorThread_refused(i) ==
    /\ busy(i)
    /\ _threads[i]._stop
    /\ \/ _threads[i].rolledBack
       \/ workerRequests[_threads[i].request]._status \in
                {"STATUS_IN_PROGRESS", "STATUS_IS_CANCELLING"}
    /\ processingRefused(_threads[i].request)
    /\ _threads' = [_threads EXCEPT ![i].request = NoId, ![i].rolledBack = FALSE]
    /\ UNCHANGED <<processorState, processorCall>>

\* WorkerProcessorThread::stopped, first half: the thread function sees
\* _stop, leaves its loop, resets the flag and drops _thread
WorkerProcessorThread_stopped(i) ==
    /\ idle(i)
    /\ _threads[i]._stop
    /\ _threads[i].stopped < MaxStopped
    /\ _threads' = [_threads EXCEPT ![i].isRunning = FALSE, ![i]._stop = FALSE,
                                    ![i].stopped = @ + 1]
    /\ UNCHANGED <<workerRequests, _newRequests, _inProgressRequests, _finishedRequests, response,
                   processorState, processorCall>>

\* processorThreadStopped, as a mutant that does not look at the other threads
processorThreadStoppedAtOnce(i) ==
    /\ i \in DOMAIN _threads
    /\ _threads[i].stopped > 0
    /\ _threads' = [_threads EXCEPT ![i].stopped = @ - 1]
    /\ IF processorState = "STATE_IS_STOPPING"
       THEN processorState' = "STATE_IS_STOPPED"
       ELSE UNCHANGED processorState
    /\ UNCHANGED <<workerRequests, _newRequests, _inProgressRequests, _finishedRequests, response,
                   processorCall>>

\* WorkerProcessor::processorThreadStopped, called by a thread function
\* that has ended
processorThreadStopped(i) ==
    /\ i \in DOMAIN _threads
    /\ _threads[i].stopped > 0
    /\ _threads' = [_threads EXCEPT ![i].stopped = @ - 1]
    /\ IF /\ processorState = "STATE_IS_STOPPING"
          /\ \A t \in DOMAIN _threads : ~_threads[t].isRunning
       THEN processorState' = "STATE_IS_STOPPED"
       ELSE UNCHANGED processorState
    /\ UNCHANGED <<workerRequests, _newRequests, _inProgressRequests, _finishedRequests, response,
                   processorCall>>

\* the clients of this specification send FIND requests only: the type and
\* the target of a request play no part in what the threads do with it
ProcessorNext ==
    /\ \/ /\ \E request \in WorkerTargets : enqueueForFind(request, TRUE)
          /\ UNCHANGED procVars
       \/ /\ \E id \in WorkerIds : dequeueOrCancelImpl(id)
          /\ UNCHANGED procVars
       \/ WorkerProcessor_run
       \/ WorkerProcessor_stop
       \/ \E i \in ThreadIds : WorkerProcessorThread_fetch(i)
       \/ \E i \in ThreadIds : fetchNextForProcessingTimeout(i)
       \/ \E i \in ThreadIds : WorkerProcessorThread_execute(i)
       \/ \E i \in ThreadIds : WorkerProcessorThread_finished(i)
       \/ \E i \in ThreadIds : WorkerProcessorThread_rollback(i)
       \/ \E i \in ThreadIds : WorkerProcessorThread_refused(i)
       \/ \E i \in ThreadIds : WorkerProcessorThread_stopped(i)
       \/ \E i \in ThreadIds : processorThreadStopped(i)
    /\ UNCHANGED <<lockerVars, connVars, ctlVars, mutexVars>>

(***************************************************************************)
(* MessengerConnector                                                      *)
(*                                                                         *)
(* An asynchronous operation (resolve, connect, timer wait, write, read)   *)
(* is "live" until it completes ("ok", "fail") or is cancelled             *)
(* ("aborted"); its handler runs later, on any of the I/O threads, so      *)
(* handlers of completed operations run in any order.  A handler does not  *)
(* bind a request: it works on whatever _currentRequest is when it runs.   *)
(***************************************************************************)

\* how many requests are submitted to the connector, and how many
\* disturbances (I/O failures, cancellations) the environment injects
MaxRequests == 3
MaxFaults == 2

ConnIds == 1..MaxRequests

AsyncOp(kind, status) == [kind |-> kind, status |-> status]

\* what parseAndNotify hands to the request's onFinish: the id and the
\* wrapper's success flag (false unless setSuccess(true) was called); by is
\* the method that took the wrapper out of the connector
Notification(id, success, by) == [id |-> id, success |-> success, by |-> by]

ConnInit ==
    /\ _state = "STATE_INITIAL"
    /\ _requests = <<>>
    /\ _currentRequest = NoId
    /\ asyncOps = EmptyBag
    /\ isConnected = FALSE
    /\ request2notify = {}
    /\ notified = {}
    /\ cancelled = {}
    /\ onWire = {}
    /\ requeued = NoId
    /\ numSubmitted = 0
    /\ sendThrew = FALSE
    /\ faults = 0

\* the connector as one value, for the helpers that the handlers call
\* while they hold the mutex
connector ==
    [_state |-> _state, _requests |-> _requests, _currentRequest |-> _currentRequest,
     asyncOps |-> asyncOps, isConnected |-> isConnected, onWire |-> onWire,
     requeued |-> requeued]

becomes(c) ==
    /\ _state' = c._state
    /\ _requests' = c._requests
    /\ _currentRequest' = c._currentRequest
    /\ asyncOps' = c.asyncOps
    /\ isConnected' = c.isConnected
    /\ onWire' = c.onWire
    /\ requeued' = c.requeued

\* start an asynchronous operation; one on a socket that is not connected
\* completes with an error at once
launch(c, kind) ==
    [c EXCEPT !.asyncOps = @ (+) SetToBag({AsyncOp(kind,
                IF kind \in {"write", "read"} /\ ~c.isConnected THEN "fail" ELSE "live")})]

consume(c, kind, status) == [c EXCEPT !.asyncOps = @ (-) SetToBag({AsyncOp(kind, status)})]

\* _resolver.cancel(); _socket.cancel(); _socket.close(); _timer.cancel():
\* every operation still live completes with operation_aborted
abortLive(ops, kinds) ==
    LET after(e) == IF e.status = "live" /\ e.kind \in kinds
                    THEN AsyncOp(e.kind, "aborted") ELSE e
        T == {after(e) : e \in BagToSet(ops)}
    IN  [t \in T |->
            (IF t.status = "live" /\ t.kind \in kinds THEN 0 ELSE CopiesIn(t, ops))
            + (IF t.status = "aborted" /\ t.kind \in kinds
               THEN CopiesIn(AsyncOp(t.kind, "live"), ops) ELSE 0)]

AllKinds == {"resolve", "connect", "timer", "write", "read"}

SocketKinds == {"connect", "write", "read"}

\* _socket.close(), which also cancels the operations on the socket
closeSocket(c) ==
    [c EXCEPT !.asyncOps = abortLive(@, SocketKinds), !.isConnected = FALSE, !.onWire = {}]

\* MessengerConnector::connect: boost::asio::async_connect closes the socket
\* if it is open and then connects it
connect(c) == launch(closeSocket(c), "connect")

\* MessengerConnector::resolve
resolve(c) ==
    IF c._state # "STATE_INITIAL" THEN c
    ELSE [launch(c, "resolve") EXCEPT !._state = "STATE_CONNECTING"]

\* MessengerConnector::restart
restart(c) ==
    IF c._state = "STATE_INITIAL" THEN resolve(c)
    ELSE resolve([closeSocket(c) EXCEPT !.asyncOps = abortLive(@, AllKinds),
                                        !._state = "STATE_INITIAL"])

\* MessengerConnector::waitBeforeRestart
waitBeforeRestart(c) ==
    launch([c EXCEPT !.asyncOps = abortLive(@, {"timer"})], "timer")

\* MessengerConnector::sendRequest
sendRequest(c) ==
    IF c._currentRequest # NoId THEN c
    ELSE IF c._requests = <<>> THEN c
    ELSE [launch(c, "write") EXCEPT
            !._currentRequest = Head(c._requests),
            !._requests = Tail(c._requests),
            !.onWire = IF c.isConnected THEN @ \cup {Head(c._requests)} ELSE @,
            !.requeued = IF @ = Head(c._requests) THEN NoId ELSE @]

\* _requests.push_front, as a mutant of the registration in sendImpl
registerFront(requests, id) == <<id>> \o requests

\* _requests.push_back(ptr) in sendImpl
register(requests, id) == Append(requests, id)

\* re-queueing at the back, as a mutant of the re-queueing in requestSent
requeueBack(requests, id) == Append(requests, id)

\* _requests.push_front(_currentRequest) in requestSent
requeue(requests, id) == <<id>> \o requests

\* MessengerConnector::find looks in _requests only
find(id) == id \in Range(_requests)

\* MessengerConnector::sendImpl past the test of find(): the request is
\* registered and, if the connector is ready for it, sent
registerAndSubmit(id) ==
    LET c == [connector EXCEPT !._requests = register(@, id)]
    IN  CASE _state = "STATE_INITIAL" -> becomes(resolve(c))
          [] _state = "STATE_CONNECTING" -> becomes(c)
          [] _state = "STATE_COMMUNICATING" -> becomes(sendRequest(c))

\* MessengerConnector::sendImpl of a request whose id the connector has not
\* seen before
sendImpl(id) ==
    /\ id \in ConnIds
    /\ id = numSubmitted + 1
    /\ ~find(id)
    /\ registerAndSubmit(id)
    /\ numSubmitted' = id
    /\ sendThrew' = FALSE
    /\ UNCHANGED <<request2notify, notified, cancelled, faults>>

\* MessengerConnector::sendImpl of a request whose id is that of a request
\* the connector holds, in the queue or as the current one: it throws if
\* find() finds the id
sendImplRegistered(id) ==
    /\ id \in Range(_requests) \cup ({_currentRequest} \ {NoId})
    /\ faults < MaxFaults
    /\ faults' = faults + 1
    /\ IF find(id)
       THEN /\ sendThrew' = TRUE
            /\ becomes(connector)
       ELSE /\ sendThrew' = FALSE
            /\ registerAndSubmit(id)
    /\ UNCHANGED <<request2notify, notified, cancelled, numSubmitted>>

\* MessengerConnector::cancel
cancel(id) ==
    /\ id \in Range(_requests) \cup {_currentRequest} \cup {n.id : n \in request2notify}
    /\ faults < MaxFaults
    /\ faults' = faults + 1
    /\ LET c == [connector EXCEPT !._requests = RemoveId(@, id),
                                  !.requeued = IF @ = id THEN NoId ELSE @]
       IN  IF _currentRequest = id
           THEN IF _state = "STATE_COMMUNICATING"
                THEN becomes(restart([c EXCEPT !._currentRequest = NoId]))
                ELSE becomes([c EXCEPT !._currentRequest = NoId])
           ELSE becomes(c)
    /\ cancelled' = cancelled \cup {id}
    /\ UNCHANGED <<request2notify, notified, numSubmitted, sendThrew>>

\* MessengerConnector::stop (in STATE_INITIAL it does nothing)
stop ==
    /\ _state # "STATE_INITIAL"
    /\ faults < MaxFaults
    /\ faults' = faults + 1
    /\ becomes([closeSocket(connector) EXCEPT
                                 !._state = "STATE_INITIAL",
                                 !.asyncOps = abortLive(@, AllKinds),
                                 !._currentRequest = NoId,
                                 !.requeued = NoId,
                                 !._requests = <<>>])
    /\ request2notify' = request2notify
            \cup {Notification(id, FALSE, "stop") :
                    id \in Range(_requests) \cup ({_currentRequest} \ {NoId})}
    /\ UNCHANGED <<notified, cancelled, numSubmitted, sendThrew>>

\* the network, the resolver or the clock completes a live operation
complete(kind, status) ==
    /\ BagIn(AsyncOp(kind, "live"), asyncOps)
    /\ status = "fail" => kind # "timer" /\ faults < MaxFaults
    /\ asyncOps' = (asyncOps (-) SetToBag({AsyncOp(kind, "live")}))
                        (+) SetToBag({AsyncOp(kind, status)})
    /\ faults' = IF status = "fail" THEN faults + 1 ELSE faults
    /\ isConnected' = IF kind = "connect" THEN status = "ok" ELSE isConnected
    /\ UNCHANGED <<_state, _requests, _currentRequest, onWire, requeued, request2notify,
                   notified, cancelled, numSubmitted, sendThrew>>

handlerRuns(kind, status) ==
    /\ status \in {"ok", "fail", "aborted"}
    /\ BagIn(AsyncOp(kind, status), asyncOps)

\* MessengerConnector::resolved
resolved(status) ==
    /\ handlerRuns("resolve", status)
    /\ LET c == consume(connector, "resolve", status)
       IN  CASE status = "aborted" -> becomes(c)
             [] status = "fail" -> becomes(waitBeforeRestart(c))
             [] status = "ok" -> becomes(connect(c))
    /\ UNCHANGED <<request2notify, notified, cancelled, numSubmitted, sendThrew, faults>>

\* MessengerConnector::connected
connected(status) ==
    /\ handlerRuns("connect", status)
    /\ LET c == consume(connector, "connect", status)
       IN  CASE status = "aborted" -> becomes(c)
             [] status = "fail" -> becomes(waitBeforeRestart(c))
             [] status = "ok" -> becomes(sendRequest([c EXCEPT !._state = "STATE_COMMUNICATING"]))
    /\ UNCHANGED <<request2notify, notified, cancelled, numSubmitted, sendThrew, faults>>

\* MessengerConnector::awakenForRestart
awakenForRestart(status) ==
    /\ handlerRuns("timer", status)
    /\ LET c == consume(connector, "timer", status)
       IN  IF status = "aborted" \/ _state # "STATE_CONNECTING"
           THEN becomes(c)
           ELSE becomes(restart(c))
    /\ UNCHANGED <<request2notify, notified, cancelled, numSubmitted, sendThrew, faults>>

\* MessengerConnector::requestSent
requestSent(status) ==
    /\ handlerRuns("write", status)
    /\ LET c == consume(connector, "write", status)
       IN  CASE status = "aborted" -> becomes(restart(c))
             [] status # "aborted" /\ _currentRequest = NoId -> becomes(c)
             [] status = "fail" /\ _currentRequest # NoId ->
                    becomes(restart([c EXCEPT !._requests = requeue(@, _currentRequest),
                                              !.requeued = _currentRequest,
                                              !._currentRequest = NoId]))
             [] status = "ok" /\ _currentRequest # NoId -> becomes(launch(c, "read"))
    /\ UNCHANGED <<request2notify, notified, cancelled, numSubmitted, sendThrew, faults>>

\* the request is re-queued at the front and nobody is told, as a mutant of
\* what responseReceived does when the response cannot be read
responseFailureRetried(c) ==
    [conn |-> restart([c EXCEPT !._requests = requeue(@, c._currentRequest),
                                !._currentRequest = NoId]),
     notify |-> {}]

\* the request leaves the connector and its owner is told of the failure:
\* what responseReceived does when the response cannot be read
responseFailure(c) ==
    [conn |-> restart([c EXCEPT !._currentRequest = NoId]),
     notify |-> {Notification(c._currentRequest, FALSE, "responseReceived")}]

\* the response was read in full: setSuccess(true); sendRequest(lock)
responseSuccess(c) ==
    [conn |-> sendRequest([c EXCEPT !._currentRequest = NoId,
                                    !.onWire = @ \ {c._currentRequest}]),
     notify |-> {Notification(c._currentRequest, TRUE, "responseReceived")}]

\* MessengerConnector::responseReceived; syncRead is the outcome of the
\* synchronous reads of the header, the frame and the body
responseReceived(status, syncRead) ==
    /\ handlerRuns("read", status)
    /\ syncRead \in {"ok", "fail"}
    /\ syncRead = "fail" => status = "ok" /\ _currentRequest # NoId
    /\ syncRead = "fail" /\ isConnected => faults < MaxFaults
    /\ syncRead = "ok" /\ status = "ok" /\ _currentRequest # NoId => isConnected
    /\ LET c == consume(connector, "read", status)
           r == CASE status = "aborted" -> [conn |-> restart(c), notify |-> {}]
                  [] status = "fail" /\ _currentRequest = NoId -> [conn |-> restart(c), notify |-> {}]
                  [] status = "ok" /\ _currentRequest = NoId -> [conn |-> sendRequest(c), notify |-> {}]
                  [] status = "fail" /\ _currentRequest # NoId -> responseFailure(c)
                  [] status = "ok" /\ _currentRequest # NoId /\ syncRead = "fail" -> responseFailure(c)
                  [] status = "ok" /\ _currentRequest # NoId /\ syncRead = "ok" -> responseSuccess(c)
       IN  /\ becomes(r.conn)
           /\ request2notify' = request2notify \cup r.notify
    /\ faults' = IF syncRead = "fail" /\ isConnected THEN faults + 1 ELSE faults
    /\ UNCHANGED <<notified, cancelled, numSubmitted, sendThrew>>

\* ptr->parseAndNotify(), which stop and responseReceived call for a wrapper
\* once they have released the mutex: the owner's onFinish callback runs
parseAndNotify(n) ==
    /\ n \in request2notify
    /\ request2notify' = request2notify \ {n}
    /\ notified' = notified \cup {n}
    /\ UNCHANGED <<_state, _requests, _currentRequest, asyncOps, isConnected, onWire,
                   requeued, cancelled, numSubmitted, sendThrew, faults>>

ConnNext ==
    /\ \/ \E id \in ConnIds : sendImpl(id)
       \/ \E id \in ConnIds : cancel(id)
       \/ stop
       \/ \E kind \in AllKinds, status \in {"ok", "fail"} : complete(kind, status)
       \/ \E status \in {"ok", "fail", "aborted"} : resolved(status)
       \/ \E status \in {"ok", "fail", "aborted"} : connected(status)
       \/ \E status \in {"ok", "aborted"} : awakenForRestart(status)
       \/ \E status \in {"ok", "fail", "aborted"} : requestSent(status)
       \/ \E status \in {"ok", "fail", "aborted"}, syncRead \in {"ok", "fail"} :
                responseReceived(status, syncRead)
       \/ \E n \in request2notify : parseAndNotify(n)
    /\ UNCHANGED <<lockerVars, workerVars, ctlVars, mutexVars>>

(***************************************************************************)
(* Request (DeleteRequest)                                                 *)
(*                                                                         *)
(* One request and the threads that work on it: the client (start,         *)
(* cancel), the expiration timer (expired), the poll timer (awaken) and    *)
(* the messenger's callback (analyze).  A handler first tests the state    *)
(* without the mutex ("Check"), then takes the mutex and runs ("Locked").  *)
(***************************************************************************)

\* how many times the client calls start() and cancel() on one object
MaxCalls == 2

\* how many status polls a request sends before the worker is left alone
MaxPolls == 3

ServerStatuses ==
    {"SUCCESS", "QUEUED", "IN_PROGRESS", "IS_CANCELLING", "BAD", "FAILED", "CANCELLED",
     "UNKNOWN"}

ExtendedServerStatuses == {"EXT_STATUS_NONE", "EXT_STATUS_DUPLICATE"}

\* the id of the request, on the worker, that the worker reports as a duplicate
DuplicateId == "duplicate"

\* the request's own id
OwnId == "own"

\* boost::asio::deadline_timer::cancel().  A timer is "off", or "armed" (a
\* wait is pending), or "fired" (the wait ended in time and its handler has
\* not run yet), or "aborted" (the wait was cancelled and its handler, which
\* gets operation_aborted, has not run yet).
cancelTimer(timer) == IF timer = "armed" THEN "aborted" ELSE timer

\* Request::Request
NewRequest(keepTracking, allowDuplicate, requestExpirationIvalSec) ==
    [_id |-> OwnId,
     _state |-> "CREATED",
     _extendedState |-> "NONE",
     _extendedServerStatus |-> "EXT_STATUS_NONE",
     _keepTracking |-> keepTracking,
     _allowDuplicate |-> allowDuplicate,
     _duplicateRequestId |-> "",
     _requestExpirationIvalSec |-> requestExpirationIvalSec,
     _requestExpirationTimer |-> "off",     \* see cancelTimer
     _timer |-> "off",                      \* the poll timer, likewise
     sent |-> 0,            \* messages given to the messenger, callback not made yet
     waits |-> 0,           \* calls of wait(): how often the poll timer was armed
     polls |-> 0,           \* status polls that awaken() has sent
     pollId |-> "",         \* the id that the last status poll asked about
     notifying |-> 0,       \* notifier threads launched by notify(), not run yet
     notified |-> 0,        \* calls of the onFinish callback
     threw |-> FALSE,       \* a call threw std::logic_error
     calls |-> 0]           \* calls made by the client

RequestInit ==
    /\ focus \in {"deleteRequest", "job"}
    /\ \E keepTracking \in BOOLEAN, allowDuplicate \in BOOLEAN, ival \in {0, 1} :
            /\ focus # "deleteRequest" => ~keepTracking /\ ~allowDuplicate /\ ival = 0
            /\ deleteRequest = NewRequest(keepTracking, allowDuplicate, ival)
    /\ requestEntered = {}

\* the tests "state() == State::FINISHED" dropped, as a mutant
isFinishedNever(r) == FALSE

\* state() == State::FINISHED
isFinished(r) == r._state = "FINISHED"

\* a remoteId that is always the request's own id, as a mutant
remoteIdOwn(r) == r._id

\* Request::remoteId
remoteId(r) == IF r._duplicateRequestId = "" THEN r._id ELSE r._duplicateRequestId

\* Request::assertState that accepts any state, as a mutant
assertStateAny(r, desiredState) == TRUE

\* Request::assertState: whether the state is the desired one (it throws if not)
assertState(r, desiredState) == r._state = desiredState

\* Request::setState
Request_setState(r, newState, newExtendedState) ==
    [r EXCEPT !._extendedState = newExtendedState, !._state = newState]

\* Request::finish, with Request::notify
Request_finish(r, extendedState) ==
    IF isFinished(r) THEN r
    ELSE [Request_setState(r, "FINISHED", extendedState) EXCEPT
                !._requestExpirationTimer = cancelTimer(@),
                !.notifying = @ + 1]

\* DeleteRequest::send
DeleteRequest_send(r) == [r EXCEPT !.sent = @ + 1]

\* a wait() that does not start the timer, as a mutant
DeleteRequest_waitNotArmed(r) == [r EXCEPT !.waits = @ + 1]

\* DeleteRequest::wait
DeleteRequest_wait(r) == [r EXCEPT !._timer = "armed", !.waits = @ + 1]

\* an analyze that does not look at the outcome of the exchange and takes
\* what is in the buffer for the worker's answer, as a mutant
analyzeIgnoresOutcome(r, success, status, status_ext) ==
    CASE status = "SUCCESS" -> Request_finish(r, "SUCCESS")
      [] status = "FAILED" -> Request_finish(r, "SERVER_ERROR")
      [] status = "CANCELLED" -> Request_finish(r, "SERVER_CANCELLED")
      [] OTHER -> Request_finish(r, "SERVER_BAD")

\* the body of DeleteRequest::analyze, under the mutex, the request not FINISHED
analyze(r, success, status, status_ext) ==
    IF ~success THEN Request_finish(r, "CLIENT_ERROR")
    ELSE LET r1 == [r EXCEPT !._extendedServerStatus = status_ext]
             r2 == IF status_ext = "EXT_STATUS_DUPLICATE"
                   THEN [r1 EXCEPT !._duplicateRequestId = DuplicateId] ELSE r1
         IN  CASE status = "SUCCESS" -> Request_finish(r1, "SUCCESS")
               [] status \in {"QUEUED", "IN_PROGRESS", "IS_CANCELLING"} ->
                    IF r._keepTracking THEN DeleteRequest_wait(r1)
                    ELSE Request_finish(r1, CASE status = "QUEUED" -> "SERVER_QUEUED"
                                                  [] status = "IN_PROGRESS" -> "SERVER_IN_PROGRESS"
                                                  [] status = "IS_CANCELLING" -> "SERVER_IS_CANCELLING")
               [] status = "BAD" ->
                    IF status_ext = "EXT_STATUS_DUPLICATE" /\ r._allowDuplicate /\ r._keepTracking
                    THEN DeleteRequest_wait(r2)
                    ELSE Request_finish(r2, "SERVER_BAD")
               [] status = "FAILED" -> Request_finish(r1, "SERVER_ERROR")
               [] status = "CANCELLED" -> Request_finish(r1, "SERVER_CANCELLED")
               [] OTHER -> [r1 EXCEPT !.threw = TRUE]

\* a handler that passed the test made without the mutex and waits for the mutex
Entered(handler, arg) == [handler |-> handler, arg |-> arg]

NoArg == [call |-> 0]

\* Request::start
Request_start ==
    /\ focus = "deleteRequest"
    /\ deleteRequest.calls < MaxCalls
    /\ LET r == [deleteRequest EXCEPT !.calls = @ + 1]
       IN  IF ~assertState(r, "CREATED")
           THEN deleteRequest' = [r EXCEPT !.threw = TRUE]
           ELSE deleteRequest' = Request_setState(
                    DeleteRequest_send(
                        [r EXCEPT !._requestExpirationTimer =
                            IF r._requestExpirationIvalSec # 0 THEN "armed" ELSE @]),
                    "IN_PROGRESS", "NONE")
    /\ UNCHANGED requestEntered

\* Request::cancel, up to the mutex
Request_cancelCheck ==
    /\ focus = "deleteRequest"
    /\ deleteRequest.calls < MaxCalls
    /\ deleteRequest' = [deleteRequest EXCEPT !.calls = @ + 1]
    /\ requestEntered' = IF isFinished(deleteRequest) THEN requestEntered
                         ELSE requestEntered \cup {Entered("cancel", [call |-> deleteRequest.calls + 1])}

\* Request::cancel, under the mutex
Request_cancelLocked(e) ==
    /\ e \in requestEntered /\ e.handler = "cancel"
    /\ requestEntered' = requestEntered \ {e}
    /\ deleteRequest' = IF isFinished(deleteRequest) THEN deleteRequest ELSE Request_finish(deleteRequest, "CANCELLED")

\* the interval of the request's expiration timer ends
Request_expirationTimerFires ==
    /\ deleteRequest._requestExpirationTimer = "armed"
    /\ deleteRequest' = [deleteRequest EXCEPT !._requestExpirationTimer = "fired"]
    /\ UNCHANGED requestEntered

\* Request::expired(ec), up to the mutex: ec is "aborted" for a wait that was
\* cancelled and "ok" for one that ended in time
Request_expiredCheck(ec) ==
    /\ deleteRequest._requestExpirationTimer = (IF ec = "aborted" THEN "aborted" ELSE "fired")
    /\ deleteRequest' = [deleteRequest EXCEPT !._requestExpirationTimer = "off"]
    /\ requestEntered' = IF ec = "aborted" \/ isFinished(deleteRequest) THEN requestEntered
                         ELSE requestEntered \cup {Entered("expired", NoArg)}

\* a Request::expired that returns without finishing the request, as a mutant
Request_expiredLockedIgnored(e) ==
    /\ e \in requestEntered /\ e.handler = "expired"
    /\ requestEntered' = requestEntered \ {e}
    /\ deleteRequest' = deleteRequest

\* Request::expired, under the mutex
Request_expiredLocked(e) ==
    /\ e \in requestEntered /\ e.handler = "expired"
    /\ requestEntered' = requestEntered \ {e}
    /\ deleteRequest' = IF isFinished(deleteRequest) THEN deleteRequest
                  ELSE Request_finish(deleteRequest, "TIMEOUT_EXPIRED")

\* DeleteRequest::analyze, called by the messenger, up to the mutex
DeleteRequest_analyzeCheck(success, status, status_ext) ==
    /\ deleteRequest.sent > 0
    /\ ~success => status = "FAILED" /\ status_ext = "EXT_STATUS_NONE"
    /\ status_ext = "EXT_STATUS_DUPLICATE" => status = "BAD"
    /\ deleteRequest' = [deleteRequest EXCEPT !.sent = @ - 1]
    /\ requestEntered' =
            IF isFinished(deleteRequest) THEN requestEntered
            ELSE requestEntered \cup
                    {Entered("analyze", [success |-> success, status |-> status,
                                         status_ext |-> status_ext])}

\* DeleteRequest::analyze, under the mutex
DeleteRequest_analyzeLocked(e) ==
    /\ e \in requestEntered /\ e.handler = "analyze"
    /\ requestEntered' = requestEntered \ {e}
    /\ deleteRequest' = IF isFinished(deleteRequest) THEN deleteRequest
                  ELSE analyze(deleteRequest, e.arg.success, e.arg.status, e.arg.status_ext)

\* DeleteRequest::awaken (the poll timer fired), up to the mutex
DeleteRequest_awakenCheck ==
    /\ deleteRequest._timer = "armed"
    /\ deleteRequest.polls < MaxPolls
    /\ deleteRequest' = [deleteRequest EXCEPT !._timer = "off"]
    /\ requestEntered' = IF isFinished(deleteRequest) THEN requestEntered
                         ELSE requestEntered \cup {Entered("awaken", NoArg)}

\* DeleteRequest::awaken, under the mutex
DeleteRequest_awakenLocked(e) ==
    /\ e \in requestEntered /\ e.handler = "awaken"
    /\ requestEntered' = requestEntered \ {e}
    /\ deleteRequest' = IF isFinished(deleteRequest) THEN deleteRequest
                        ELSE DeleteRequest_send([deleteRequest EXCEPT
                                    !.polls = @ + 1, !.pollId = remoteId(deleteRequest)])

\* the notifier thread of Request::notify: DeleteRequest::notifyImpl
DeleteRequest_notifyImpl ==
    /\ deleteRequest.notifying > 0
    /\ deleteRequest' = [deleteRequest EXCEPT !.notifying = @ - 1, !.notified = @ + 1]
    /\ UNCHANGED requestEntered

RequestNext ==
    /\ \/ Request_start
       \/ Request_cancelCheck
       \/ \E e \in requestEntered : Request_cancelLocked(e)
       \/ Request_expirationTimerFires
       \/ \E ec \in {"ok", "aborted"} : Request_expiredCheck(ec)
       \/ \E e \in requestEntered : Request_expiredLocked(e)
       \/ \E success \in BOOLEAN, status \in ServerStatuses,
             status_ext \in ExtendedServerStatuses :
                DeleteRequest_analyzeCheck(success, status, status_ext)
       \/ \E e \in requestEntered : DeleteRequest_analyzeLocked(e)
       \/ DeleteRequest_awakenCheck
       \/ \E e \in requestEntered : DeleteRequest_awakenLocked(e)
       \/ DeleteRequest_notifyImpl
    /\ UNCHANGED <<focus, jobVars>>

(***************************************************************************)
(* Job and the fan-out jobs CreateReplicaJob, QservSyncJob and             *)
(* QservGetReplicasJob                                                     *)
(*                                                                         *)
(* One job, its child requests and the threads that work on the job: the   *)
(* client (start, cancel), the expiration timer (expired) and the          *)
(* notifier threads of the children (onRequestFinish).                     *)
(***************************************************************************)

\* how many workers (QservSyncJob, QservGetReplicasJob) or source replicas
\* (CreateReplicaJob) there are: the most children a job launches
MaxChildren == 2

ChildIds == 1..MaxChildren

JobKinds == {"CreateReplicaJob", "QservSyncJob", "QservGetReplicasJob"}

\* Job::_id of the job, as an owner of chunks
JobId == "1"

\* (databaseFamily(), chunk()) of the CreateReplicaJob
JobChunk == [databaseFamily |-> "F", number |-> 1]

\* Job::Job
NewJob(kind, heartbeatTimerIvalSec, expirationIvalSec) ==
    [kind |-> kind,
     _state |-> "CREATED",
     _extendedState |-> "NONE",
     _heartbeatTimerIvalSec |-> heartbeatTimerIvalSec,
     _expirationIvalSec |-> expirationIvalSec,
     _heartbeatTimer |-> "off",     \* *_heartbeatTimerPtr, see cancelTimer
     _expirationTimer |-> "off",    \* *_expirationTimerPtr, likewise
     _endTime |-> "unset",
     _requests |-> {},          \* the children in the job's collection
     _numLaunched |-> 0,
     _numFinished |-> 0,
     _numSuccess |-> 0,
     _replicaData |-> {},       \* the children whose result was recorded
     launched |-> {},           \* the children startImpl launched
     notifying |-> 0,           \* notifier threads launched by notify(), not run yet
     notified |-> 0,            \* calls of the onFinish callback
     threw |-> FALSE,           \* a call threw std::logic_error
     calls |-> 0]               \* calls made by the client

\* a child request: not launched yet
NewChild == [_state |-> "CREATED", _extendedState |-> "NONE", notifying |-> 0]

JobInit ==
    /\ \E kind \in JobKinds, heartbeat \in {0, 1}, ival \in {0, 1} :
            /\ focus # "job" => kind = "CreateReplicaJob" /\ heartbeat = 0 /\ ival = 0
            /\ job = NewJob(kind, heartbeat, ival)
    /\ children = [c \in ChildIds |-> NewChild]
    /\ jobEntered = {}

\* Job::assertState: whether the state is the desired one (it throws if not)
Job_assertState(j, desiredState) == j._state = desiredState

\* Job::setState
Job_setState(j, newState, newExtendedState) ==
    [j EXCEPT !._endTime = IF isFinished(j) THEN "set" ELSE @,
              !._extendedState = newExtendedState,
              !._state = newState]

\* Request::cancel of a child (a child that is FINISHED stays as it is)
cancelChild(ch) ==
    IF isFinished(ch) THEN ch
    ELSE [ch EXCEPT !._state = "FINISHED", !._extendedState = "CANCELLED", !.notifying = @ + 1]

\* cancelImpl that leaves the counters as they are, as a mutant
cancelImplKeepsCounters(jc) ==
    [job |-> [jc.job EXCEPT !._requests = {}],
     children |-> [c \in ChildIds |->
                    IF c \in jc.job._requests THEN cancelChild(jc.children[c])
                    ELSE jc.children[c]]]

\* DeleteWorkerJob::cancelImpl: cancel the requests and the chained jobs; the
\* collections and the counters stay as they are
DeleteWorkerJob_cancelImpl(jc) ==
    [job |-> jc.job,
     children |-> [c \in DOMAIN jc.children |->
                    IF c \in jc.job._findAllRequests \cup jc.job._findAllJobs
                                \cup jc.job._replicateJobs
                    THEN cancelChild(jc.children[c])
                    ELSE jc.children[c]]]

\* VerifyJob::cancelImpl: cancel the requests and clear _replicas and _requests
VerifyJob_cancelImpl(jc) ==
    [job |-> [jc.job EXCEPT !._requests = {}],
     children |-> [c \in DOMAIN jc.children |->
                    IF c \in jc.job._requests THEN cancelChild(jc.children[c])
                    ELSE jc.children[c]]]

\* cancelImpl of the jobs: cancel every request of the collection and
\* clear it; the Qserv jobs reset their counters as well
cancelImpl(jc) ==
    IF jc.job.kind = "DeleteWorkerJob" THEN DeleteWorkerJob_cancelImpl(jc)
    ELSE IF jc.job.kind = "VerifyJob" THEN VerifyJob_cancelImpl(jc)
    ELSE
    [job |-> IF jc.job.kind = "CreateReplicaJob"
             THEN [jc.job EXCEPT !._requests = {}]
             ELSE [jc.job EXCEPT !._requests = {}, !._numLaunched = 0,
                                 !._numFinished = 0, !._numSuccess = 0],
     children |-> [c \in ChildIds |->
                    IF c \in jc.job._requests THEN cancelChild(jc.children[c])
                    ELSE jc.children[c]]]

\* Job::finish that does not call notify(), as a mutant
Job_finishSilent(jc, newExtendedState) ==
    IF isFinished(jc.job) THEN jc
    ELSE LET set == [jc EXCEPT !.job = Job_setState(@, "FINISHED", newExtendedState)]
             cleaned == IF newExtendedState # "SUCCESS" THEN cancelImpl(set) ELSE set
         IN  [cleaned EXCEPT !.job._heartbeatTimer = cancelTimer(@),
                             !.job._expirationTimer = cancelTimer(@)]

\* Job::finish, with Job::notify
Job_finish(jc, newExtendedState) ==
    IF isFinished(jc.job) THEN jc
    ELSE LET set == [jc EXCEPT !.job = Job_setState(@, "FINISHED", newExtendedState)]
             cleaned == IF newExtendedState # "SUCCESS" THEN cancelImpl(set) ELSE set
         IN  [cleaned EXCEPT !.job._heartbeatTimer = cancelTimer(@),
                             !.job._expirationTimer = cancelTimer(@),
                             !.job.notifying = @ + 1]

\* the children 1 .. n are launched: controller()->replicate(...),
\* qservMgtServices->setReplicas(...), ->getReplicas(...)
launchChildren(jc, n) ==
    [job |-> [jc.job EXCEPT !._requests = 1..n, !.launched = 1..n,
                            !._numLaunched =
                                IF jc.job.kind = "CreateReplicaJob" THEN @ ELSE n],
     children |-> [c \in ChildIds |->
                    IF c \in 1..n THEN [jc.children[c] EXCEPT !._state = "IN_PROGRESS"]
                    ELSE jc.children[c]]]

\* the workers and the families of the configuration, and names it lacks
KnownWorkers == {"w1", "w2"}

WorkerNames == KnownWorkers \cup {"w9"}

FamilyNames == Families \cup {"Z"}

\* Configuration::isKnownDatabaseFamily
isKnownDatabaseFamily(name) == name \in Families

\* Configuration::isKnownWorker
isKnownWorker(name) == name \in KnownWorkers

\* ReplicaInfo::status() of a replica of the inventory
ReplicaStatuses == {"COMPLETE", "INCOMPLETE"}

\* the lists of at most n replicas, each given by its status
ReplicaLists(n) == UNION {[1..m -> ReplicaStatuses] : m \in 0..n}

\* what a CreateReplicaJob is made with and what it finds when it starts:
\* the parameters of the job, and for each call of findWorkerReplicas
\* whether it succeeded and the replicas it returned
Worlds ==
    [databaseFamily : FamilyNames,
     sourceWorker : WorkerNames,
     destinationWorker : WorkerNames,
     destinationFound : BOOLEAN,
     destinationReplicas : ReplicaLists(1),
     sourceFound : BOOLEAN,
     sourceReplicas : ReplicaLists(MaxChildren)]

\* the checks of CreateReplicaJob::startImpl without the test of the
\* destination's replicas, as a mutant
validationSkipsDestination(w) ==
    IF ~(/\ isKnownDatabaseFamily(w.databaseFamily)
         /\ isKnownWorker(w.sourceWorker)
         /\ isKnownWorker(w.destinationWorker)
         /\ w.sourceWorker # w.destinationWorker)
    THEN "CONFIG_ERROR"
    ELSE IF ~w.sourceFound THEN "FAILED"
    ELSE IF Len(w.sourceReplicas) = 0 THEN "FAILED"
    ELSE "NONE"

\* the checks of CreateReplicaJob::startImpl: the extended state it finishes
\* the job with, or "NONE" if it goes on to launch the requests
validation(w) ==
    IF ~(/\ isKnownDatabaseFamily(w.databaseFamily)
         /\ isKnownWorker(w.sourceWorker)
         /\ isKnownWorker(w.destinationWorker)
         /\ w.sourceWorker # w.destinationWorker)
    THEN "CONFIG_ERROR"
    ELSE IF ~w.destinationFound THEN "FAILED"
    ELSE IF Len(w.destinationReplicas) # 0 THEN "FAILED"
    ELSE IF ~w.sourceFound THEN "FAILED"
    ELSE IF Len(w.sourceReplicas) = 0 THEN "FAILED"
    ELSE "NONE"

\* how many requests CreateReplicaJob::startImpl launches: one for each
\* replica that findWorkerReplicas returned for the source
requestsFor(w) == IF validation(w) = "NONE" THEN Len(w.sourceReplicas) ELSE 0

\* what CreateReplicaJob::startImpl can come to: the number of requests
\* and the outcome of the checks
CreateReplicaOutcomes == {<<requestsFor(w), validation(w)>> : w \in Worlds}

\* CreateReplicaJob::startImpl: the checks fail with the given extended state,
\* or one request is launched for each of the k source replicas
CreateReplicaJob_startImpl(jc, k, failure) ==
    IF failure # "NONE"
    THEN [jc EXCEPT !.job = Job_setState(@, "FINISHED", failure)]
    ELSE [launchChildren(jc, k) EXCEPT !.job = Job_setState(@, "IN_PROGRESS", "NONE")]

\* QservSyncJob::startImpl over k workers: the replicas of worker number
\* failAt cannot be found (failAt = 0: none fails)
QservSyncJob_startImpl(jc, k, failAt) ==
    IF failAt # 0
    THEN cancelImpl([launchChildren(jc, failAt - 1) EXCEPT
                        !.job = Job_setState(@, "FINISHED", "FAILED")])
    ELSE IF k = 0
    THEN [jc EXCEPT !.job = Job_setState(@, "FINISHED", "NONE")]
    ELSE [launchChildren(jc, k) EXCEPT !.job = Job_setState(@, "IN_PROGRESS", "NONE")]

\* QservGetReplicasJob::startImpl over k workers: the request to worker
\* number failAt cannot be made (failAt = 0: none fails)
QservGetReplicasJob_startImpl(jc, k, failAt) ==
    IF failAt # 0
    THEN [launchChildren(jc, failAt - 1) EXCEPT
                        !.job = Job_setState(@, "FINISHED", "FAILED")]
    ELSE IF k = 0
    THEN [jc EXCEPT !.job = Job_setState(@, "FINISHED", "NONE")]
    ELSE [launchChildren(jc, k) EXCEPT !.job = Job_setState(@, "IN_PROGRESS", "NONE")]

jobAndChildren == [job |-> job, children |-> children]

jobBecomes(jc) ==
    /\ job' = jc.job
    /\ children' = jc.children

\* Job::start
Job_start(k, failAt, failure) ==
    /\ focus = "job"
    /\ job.calls < MaxCalls
    /\ k \in 0..MaxChildren /\ failAt \in 0..k
    /\ failure \in {"NONE", "CONFIG_ERROR", "FAILED"}
    /\ IF job.kind = "CreateReplicaJob"
       THEN failAt = 0 /\ <<k, failure>> \in CreateReplicaOutcomes
       ELSE failure = "NONE"
    /\ LET jc == [jobAndChildren EXCEPT !.job.calls = @ + 1]
       IN  IF ~Job_assertState(jc.job, "CREATED")
           THEN jobBecomes([jc EXCEPT !.job.threw = TRUE])
           ELSE LET armed == [jc EXCEPT
                                !.job._heartbeatTimer =
                                    IF jc.job._heartbeatTimerIvalSec # 0 THEN "armed" ELSE @,
                                !.job._expirationTimer =
                                    IF jc.job._expirationIvalSec # 0 THEN "armed" ELSE @]
                    impl == CASE job.kind = "CreateReplicaJob" ->
                                    CreateReplicaJob_startImpl(armed, k, failure)
                              [] job.kind = "QservSyncJob" ->
                                    QservSyncJob_startImpl(armed, k, failAt)
                              [] job.kind = "QservGetReplicasJob" ->
                                    QservGetReplicasJob_startImpl(armed, k, failAt)
                IN  jobBecomes(IF isFinished(impl.job)
                               THEN [impl EXCEPT !.job.notifying = @ + 1]
                               ELSE impl)
    /\ UNCHANGED jobEntered

\* Job::start of a CreateReplicaJob that is made with and finds what w says
CreateReplicaJob_start(w) ==
    /\ job.kind = "CreateReplicaJob"
    /\ Job_start(requestsFor(w), 0, validation(w))

\* Job::cancel, up to the mutex
Job_cancelCheck ==
    /\ focus = "job"
    /\ job.calls < MaxCalls
    /\ job' = [job EXCEPT !.calls = @ + 1]
    /\ jobEntered' = IF isFinished(job) THEN jobEntered
                     ELSE jobEntered \cup {Entered("cancel", [call |-> job.calls + 1])}
    /\ UNCHANGED children

\* Job::cancel, under the mutex
Job_cancelLocked(e) ==
    /\ e \in jobEntered /\ e.handler = "cancel"
    /\ jobEntered' = jobEntered \ {e}
    /\ jobBecomes(IF isFinished(job) THEN jobAndChildren
                  ELSE Job_finish(jobAndChildren, "CANCELLED"))

\* the interval of the job's expiration timer ends
Job_expirationTimerFires ==
    /\ job._expirationTimer = "armed"
    /\ job' = [job EXCEPT !._expirationTimer = "fired"]
    /\ UNCHANGED <<children, jobEntered>>

\* Job::expired(ec), up to the mutex
Job_expiredCheck(ec) ==
    /\ job._expirationTimer = (IF ec = "aborted" THEN "aborted" ELSE "fired")
    /\ job' = [job EXCEPT !._expirationTimer = "off"]
    /\ jobEntered' = IF ec = "aborted" \/ isFinished(job) THEN jobEntered
                     ELSE jobEntered \cup {Entered("expired", NoArg)}
    /\ UNCHANGED children

\* Job::expired, under the mutex
Job_expiredLocked(e) ==
    /\ e \in jobEntered /\ e.handler = "expired"
    /\ jobEntered' = jobEntered \ {e}
    /\ jobBecomes(IF isFinished(job) THEN jobAndChildren
                  ELSE Job_finish(jobAndChildren, "TIMEOUT_EXPIRED"))

\* the interval of the job's heartbeat timer ends
Job_heartbeatTimerFires ==
    /\ job._heartbeatTimer = "armed"
    /\ job' = [job EXCEPT !._heartbeatTimer = "fired"]
    /\ UNCHANGED <<children, jobEntered>>

\* Job::heartbeat(ec), up to the mutex
Job_heartbeatCheck(ec) ==
    /\ job._heartbeatTimer = (IF ec = "aborted" THEN "aborted" ELSE "fired")
    /\ job' = [job EXCEPT !._heartbeatTimer = "off"]
    /\ jobEntered' = IF ec = "aborted" \/ isFinished(job) THEN jobEntered
                     ELSE jobEntered \cup {Entered("heartbeat", NoArg)}
    /\ UNCHANGED children

\* Job::heartbeat, under the mutex: startHeartbeatTimer again
Job_heartbeatLocked(e) ==
    /\ e \in jobEntered /\ e.handler = "heartbeat"
    /\ jobEntered' = jobEntered \ {e}
    /\ job' = IF isFinished(job) THEN job ELSE [job EXCEPT !._heartbeatTimer = "armed"]
    /\ UNCHANGED children

\* a child request finishes on its own: with SUCCESS, or with an error
childFinishes(c, extendedState) ==
    /\ children[c]._state = "IN_PROGRESS"
    /\ children' = [children EXCEPT ![c] = [@ EXCEPT !._state = "FINISHED",
                                                     !._extendedState = extendedState,
                                                     !.notifying = @ + 1]]
    /\ UNCHANGED <<job, jobEntered>>

\* onRequestFinish of the three jobs, called by the notifier thread of child
\* c, up to the mutex
onRequestFinishCheck(c) ==
    /\ children[c].notifying > 0
    /\ children' = [children EXCEPT ![c].notifying = @ - 1]
    /\ jobEntered' = IF isFinished(job) THEN jobEntered
                     ELSE jobEntered \cup {Entered("onRequestFinish", [child |-> c])}
    /\ UNCHANGED job

\* ::countRequestStates of CreateReplicaJob.cc
countRequestStates(collection) ==
    [numLaunched |-> Cardinality(collection),
     numFinished |-> Cardinality({c \in collection : isFinished(children[c])}),
     numSuccess |-> Cardinality({c \in collection :
                        isFinished(children[c]) /\ children[c]._extendedState = "SUCCESS"})]

\* the job is finished as soon as one child has reported, as a mutant of the
\* test numFinished == numLaunched
allReportedAfterOne(numFinished, numLaunched) == numFinished >= 1

\* numFinished == numLaunched
allReported(numFinished, numLaunched) == numFinished = numLaunched

\* CreateReplicaJob::onRequestFinish, under the mutex, the job not FINISHED
CreateReplicaJob_onRequestFinish(jc, c) ==
    LET recorded == IF jc.children[c]._extendedState = "SUCCESS"
                    THEN [jc EXCEPT !.job._replicaData = @ \cup {c}] ELSE jc
        n == countRequestStates(jc.job._requests)
    IN  IF allReported(n.numFinished, n.numLaunched)
        THEN Job_finish(recorded, IF n.numSuccess = n.numLaunched THEN "SUCCESS" ELSE "FAILED")
        ELSE recorded

\* QservSyncJob::onRequestFinish and QservGetReplicasJob::onRequestFinish,
\* under the mutex, the job not FINISHED
QservJob_onRequestFinish(jc, c) ==
    LET success == jc.children[c]._extendedState = "SUCCESS"
        counted == [jc EXCEPT !.job._numFinished = @ + 1,
                              !.job._numSuccess = IF success THEN @ + 1 ELSE @,
                              !.job._replicaData = IF success THEN @ \cup {c} ELSE @]
    IN  IF allReported(counted.job._numFinished, counted.job._numLaunched)
        THEN Job_finish(counted, IF counted.job._numSuccess = counted.job._numLaunched
                                 THEN "SUCCESS" ELSE "FAILED")
        ELSE counted

\* onRequestFinish of the three jobs, under the mutex
onRequestFinishLocked(e) ==
    /\ e \in jobEntered /\ e.handler = "onRequestFinish"
    /\ jobEntered' = jobEntered \ {e}
    /\ jobBecomes(IF isFinished(job) THEN jobAndChildren
                  ELSE IF job.kind = "CreateReplicaJob"
                  THEN CreateReplicaJob_onRequestFinish(jobAndChildren, e.arg.child)
                  ELSE QservJob_onRequestFinish(jobAndChildren, e.arg.child))

\* the notifier thread of Job::notify: notifyImpl of the job
Job_notifyImpl ==
    /\ job.notifying > 0
    /\ job' = [job EXCEPT !.notifying = @ - 1, !.notified = @ + 1]
    /\ UNCHANGED <<children, jobEntered>>

JobNext ==
    /\ \/ \E k \in 0..MaxChildren, failAt \in 0..MaxChildren,
             failure \in {"NONE", "CONFIG_ERROR", "FAILED"} : Job_start(k, failAt, failure)
       \/ Job_cancelCheck
       \/ \E e \in jobEntered : Job_cancelLocked(e)
       \/ Job_expirationTimerFires
       \/ \E ec \in {"ok", "aborted"} : Job_expiredCheck(ec)
       \/ Job_heartbeatTimerFires
       \/ \E ec \in {"ok", "aborted"} : Job_heartbeatCheck(ec)
       \/ \E e \in jobEntered : Job_heartbeatLocked(e)
       \/ \E e \in jobEntered : Job_expiredLocked(e)
       \/ \E c \in ChildIds, ext \in {"SUCCESS", "SERVER_ERROR"} : childFinishes(c, ext)
       \/ \E c \in ChildIds : onRequestFinishCheck(c)
       \/ \E e \in jobEntered : onRequestFinishLocked(e)
       \/ Job_notifyImpl
    /\ UNCHANGED <<focus, requestVars>>

(***************************************************************************)
(* DeleteWorkerJob                                                         *)
(*                                                                         *)
(* The job is a Job whose children are the FindAllRequests sent to the     *)
(* worker, then one FindAllJob and one ReplicateJob for each database      *)
(* family.  A chained job is started inside the parent's method and tells  *)
(* the parent once, from its notifier thread, when it is FINISHED.         *)
(***************************************************************************)

\* the children of the job, by what they are: one FindAllRequest for each
\* database, one FindAllJob and one ReplicateJob for each database family
FindAllRequestIds == {1, 2}
FindAllJobIds == {3, 4}
ReplicateJobIds == {5, 6}

\* DeleteWorkerJob::DeleteWorkerJob; the worker is enabled and known to the
\* configuration
NewDeleteWorkerJob(permanentDelete) ==
    [permanentDelete |-> permanentDelete,
     _findAllRequests |-> {}, _findAllJobs |-> {}, _replicateJobs |-> {},
     workerIsEnabled |-> TRUE, workerIsKnown |-> TRUE]
    @@ NewJob("DeleteWorkerJob", 0, 0)

DeleteWorkerInit ==
    /\ focus = "job"
    /\ deleteRequest = NewRequest(FALSE, FALSE, 0)
    /\ requestEntered = {}
    /\ \E permanentDelete \in BOOLEAN : job = NewDeleteWorkerJob(permanentDelete)
    /\ children = [c \in FindAllRequestIds \cup FindAllJobIds \cup ReplicateJobIds |-> NewChild]
    /\ jobEntered = {}

\* controller()->findAllReplicas(...), FindAllJob::create + start,
\* ReplicateJob::create + start for the children ids
launchChained(jc, ids) ==
    [jc EXCEPT !.children = [c \in DOMAIN jc.children |->
                                IF c \in ids THEN [jc.children[c] EXCEPT !._state = "IN_PROGRESS"]
                                ELSE jc.children[c]],
               !.job.launched = @ \cup ids,
               !.job._numLaunched = @ + Cardinality(ids)]

\* disableWorker that leaves the worker enabled, as a mutant
disableWorkerNot(jc) ==
    launchChained([jc EXCEPT !.job._numLaunched = 0, !.job._numFinished = 0, !.job._numSuccess = 0,
                      !.job._findAllJobs = FindAllJobIds],
           FindAllJobIds)

\* DeleteWorkerJob::disableWorker
disableWorker(jc) ==
    launchChained([jc EXCEPT !.job.workerIsEnabled = FALSE,
                      !.job._numLaunched = 0, !.job._numFinished = 0, !.job._numSuccess = 0,
                      !.job._findAllJobs = FindAllJobIds],
           FindAllJobIds)

\* DeleteWorkerJob::startImpl; serviceRuns: the status request and the drain
\* request both succeeded and found the worker service RUNNING
DeleteWorkerJob_startImpl(jc, serviceRuns) ==
    IF serviceRuns
    THEN [launchChained([jc EXCEPT !.job._findAllRequests = FindAllRequestIds], FindAllRequestIds)
            EXCEPT !.job = Job_setState(@, "IN_PROGRESS", "NONE")]
    ELSE [disableWorker(jc) EXCEPT !.job = Job_setState(@, "IN_PROGRESS", "NONE")]

\* Job::start of the DeleteWorkerJob
DeleteWorkerJob_start(serviceRuns) ==
    /\ job.kind = "DeleteWorkerJob"
    /\ job.calls < MaxCalls
    /\ LET jc == [jobAndChildren EXCEPT !.job.calls = @ + 1]
       IN  IF ~Job_assertState(jc.job, "CREATED")
           THEN jobBecomes([jc EXCEPT !.job.threw = TRUE])
           ELSE jobBecomes(DeleteWorkerJob_startImpl(jc, serviceRuns))
    /\ UNCHANGED jobEntered

\* DeleteWorkerJob::onRequestFinish(FindAllRequest), under the mutex, the job
\* not FINISHED
DeleteWorkerJob_onRequestFinish(jc, c) ==
    LET counted == [jc EXCEPT !.job._numFinished = @ + 1,
                              !.job._numSuccess =
                                    IF jc.children[c]._extendedState = "SUCCESS" THEN @ + 1 ELSE @]
    IN  IF counted.job._numFinished = counted.job._numLaunched
        THEN disableWorker(counted)
        ELSE counted

\* DeleteWorkerJob::onJobFinish(FindAllJob), under the mutex, the job not
\* FINISHED
DeleteWorkerJob_onFindAllJobFinish(jc, c) ==
    LET counted == [jc EXCEPT !.job._numFinished = @ + 1]
    IN  IF jc.children[c]._extendedState # "SUCCESS"
        THEN Job_finish(counted, "FAILED")
        ELSE LET succeeded == [counted EXCEPT !.job._numSuccess = @ + 1]
             IN  IF succeeded.job._numFinished = succeeded.job._numLaunched
                 THEN launchChained([succeeded EXCEPT !.job._numLaunched = 0, !.job._numFinished = 0,
                                               !.job._numSuccess = 0,
                                               !.job._replicateJobs = ReplicateJobIds],
                             ReplicateJobIds)
                 ELSE succeeded

\* DeleteWorkerJob::onJobFinish(ReplicateJob), under the mutex, the job not
\* FINISHED
DeleteWorkerJob_onReplicateJobFinish(jc, c) ==
    LET counted == [jc EXCEPT !.job._numFinished = @ + 1]
    IN  IF jc.children[c]._extendedState # "SUCCESS"
        THEN Job_finish(counted, "FAILED")
        ELSE LET succeeded == [counted EXCEPT !.job._numSuccess = @ + 1,
                                              !.job._replicaData = @ \cup {c}]
             IN  IF succeeded.job._numFinished = succeeded.job._numLaunched
                 THEN Job_finish([succeeded EXCEPT !.job.workerIsKnown =
                                        IF succeeded.job.permanentDelete THEN FALSE ELSE @],
                                 "SUCCESS")
                 ELSE succeeded

\* the callbacks of the DeleteWorkerJob, under the mutex
DeleteWorkerJob_onFinishLocked(e) ==
    /\ job.kind = "DeleteWorkerJob"
    /\ e \in jobEntered /\ e.handler = "onRequestFinish"
    /\ jobEntered' = jobEntered \ {e}
    /\ jobBecomes(IF isFinished(job) THEN jobAndChildren
                  ELSE IF e.arg.child \in FindAllRequestIds
                  THEN DeleteWorkerJob_onRequestFinish(jobAndChildren, e.arg.child)
                  ELSE IF e.arg.child \in FindAllJobIds
                  THEN DeleteWorkerJob_onFindAllJobFinish(jobAndChildren, e.arg.child)
                  ELSE DeleteWorkerJob_onReplicateJobFinish(jobAndChildren, e.arg.child))

DeleteWorkerNext ==
    /\ \/ \E serviceRuns \in BOOLEAN : DeleteWorkerJob_start(serviceRuns)
       \/ Job_cancelCheck
       \/ \E e \in jobEntered : Job_cancelLocked(e)
       \/ \E c \in DOMAIN children, ext \in {"SUCCESS", "SERVER_ERROR"} : childFinishes(c, ext)
       \/ \E c \in DOMAIN children : onRequestFinishCheck(c)
       \/ \E e \in jobEntered : DeleteWorkerJob_onFinishLocked(e)
       \/ Job_notifyImpl
    /\ UNCHANGED <<focus, requestVars, lockerVars, workerVars, connVars, mutexVars>>

(***************************************************************************)
(* VerifyJob                                                               *)
(*                                                                         *)
(* findOldestReplicas is the inventory's: it returns whether it succeeded  *)
(* and fills a vector with at most numReplicas replicas.                   *)
(***************************************************************************)

\* how many find requests the job makes in all
MaxFinds == 3

FindIds == 1..MaxFinds

\* VerifyJob::VerifyJob; lastNext is what the last call of nextReplicas gave
NewVerifyJob(maxReplicas, expirationIvalSec) ==
    [_maxReplicas |-> maxReplicas, lastNext |-> [ok |-> TRUE, n |-> 0, asked |-> 0]]
    @@ NewJob("VerifyJob", 0, expirationIvalSec)

VerifyInit ==
    /\ focus = "job"
    /\ deleteRequest = NewRequest(FALSE, FALSE, 0)
    /\ requestEntered = {}
    /\ \E maxReplicas \in 1..2, ival \in {0, 1} : job = NewVerifyJob(maxReplicas, ival)
    /\ children = [c \in FindIds |-> NewChild]
    /\ jobEntered = {}

\* what VerifyJob::nextReplicas(lock, replicas, numReplicas) may give: the
\* flag and the size of the vector
nextReplicas(j, numReplicas) ==
    {r \in [ok : BOOLEAN, n : 0..numReplicas, asked : {numReplicas}] :
        /\ ~r.ok => r.n = 0
        /\ Cardinality(j.launched) + r.n <= MaxFinds}

\* controller()->findReplica(...) for each of the n replicas
findReplica(jc, n) ==
    LET ids == {c \in FindIds : Cardinality(jc.job.launched) < c
                                /\ c <= Cardinality(jc.job.launched) + n}
    IN  [jc EXCEPT !.children = [c \in DOMAIN jc.children |->
                                    IF c \in ids
                                    THEN [jc.children[c] EXCEPT !._state = "IN_PROGRESS"]
                                    ELSE jc.children[c]],
                   !.job.launched = @ \cup ids,
                   !.job._requests = @ \cup ids]

\* VerifyJob::startImpl
VerifyJob_startImpl(jc, next) ==
    LET asked == [jc EXCEPT !.job.lastNext = next]
    IN  IF next.ok
        THEN [findReplica(asked, next.n) EXCEPT !.job = Job_setState(@, "IN_PROGRESS", "NONE")]
        ELSE [asked EXCEPT !.job = Job_setState(@, "FINISHED", "NONE")]

\* Job::start of the VerifyJob
VerifyJob_start(next) ==
    /\ job.kind = "VerifyJob"
    /\ job.calls < MaxCalls
    /\ next \in nextReplicas(job, job._maxReplicas)
    /\ LET jc == [jobAndChildren EXCEPT !.job.calls = @ + 1]
       IN  IF ~Job_assertState(jc.job, "CREATED")
           THEN jobBecomes([jc EXCEPT !.job.threw = TRUE])
           ELSE LET armed == [jc EXCEPT !.job._expirationTimer =
                                    IF jc.job._expirationIvalSec # 0 THEN "armed" ELSE @]
                    impl == VerifyJob_startImpl(armed, next)
                IN  jobBecomes(IF isFinished(impl.job)
                               THEN [impl EXCEPT !.job.notifying = @ + 1]
                               ELSE impl)
    /\ UNCHANGED jobEntered

\* VerifyJob::onRequestFinish, under the mutex, the job not FINISHED
VerifyJob_onRequestFinish(jc, c, next) ==
    LET erased == [jc EXCEPT !.job._requests = @ \ {c}, !.job.lastNext = next]
    IN  IF next.ok
        THEN findReplica(erased, next.n)
        ELSE IF erased.job._requests = {}
        THEN Job_finish(erased, "NONE")
        ELSE erased

\* VerifyJob::onRequestFinish, under the mutex
VerifyJob_onRequestFinishLocked(e, next) ==
    /\ job.kind = "VerifyJob"
    /\ e \in jobEntered /\ e.handler = "onRequestFinish"
    /\ jobEntered' = jobEntered \ {e}
    /\ IF isFinished(job)
       THEN next = [ok |-> FALSE, n |-> 0, asked |-> 1] /\ jobBecomes(jobAndChildren)
       ELSE /\ next \in nextReplicas(job, 1)
            /\ jobBecomes(VerifyJob_onRequestFinish(jobAndChildren, e.arg.child, next))

VerifyNext ==
    /\ \/ \E next \in [ok : BOOLEAN, n : 0..2, asked : 1..2] : VerifyJob_start(next)
       \/ Job_cancelCheck
       \/ \E e \in jobEntered : Job_cancelLocked(e)
       \/ Job_expirationTimerFires
       \/ \E ec \in {"ok", "aborted"} : Job_expiredCheck(ec)
       \/ \E e \in jobEntered : Job_expiredLocked(e)
       \/ \E c \in FindIds, ext \in {"SUCCESS", "SERVER_ERROR"} : childFinishes(c, ext)
       \/ \E c \in FindIds : onRequestFinishCheck(c)
       \/ \E e \in jobEntered, next \in [ok : BOOLEAN, n : 0..1, asked : {1}] :
                VerifyJob_onRequestFinishLocked(e, next)
       \/ Job_notifyImpl
    /\ UNCHANGED <<focus, requestVars, lockerVars, workerVars, connVars, mutexVars>>

(***************************************************************************)
(* QservSyncJob when the Qserv management service cannot be reached        *)
(*                                                                         *)
(* QservMgtServices::setReplicas asks for the XRootD/SSI service at each   *)
(* call and returns a null pointer when it does not get it.  A null child  *)
(* is no object: it never finishes and never calls back.                   *)
(***************************************************************************)

SyncInit ==
    /\ focus = "job"
    /\ deleteRequest = NewRequest(FALSE, FALSE, 0)
    /\ requestEntered = {}
    /\ \E heartbeat \in {0, 1} : job = NewJob("QservSyncJob", heartbeat, 0)
    /\ children = [c \in ChildIds |-> NewChild]
    /\ jobEntered = {}

\* the requests of the job that are null pointers
nullRequests(j, ch) == {c \in j._requests : ch[c]._state = "null"}

\* QservSyncJob::startImpl over k workers when setReplicas returns nullptr
\* for the workers in nulls: what it returns is pushed onto _requests and
\* counted in _numLaunched all the same
QservSyncJob_startImplNulls(jc, k, nulls) ==
    IF k = 0
    THEN [jc EXCEPT !.job = Job_setState(@, "FINISHED", "NONE")]
    ELSE LET launched == launchChildren(jc, k)
         IN  [job |-> Job_setState([launched.job EXCEPT !.launched = @ \ nulls],
                                   "IN_PROGRESS", "NONE"),
              children |-> [c \in ChildIds |->
                              IF c \in nulls THEN [jc.children[c] EXCEPT !._state = "null"]
                              ELSE launched.children[c]]]

\* Job::start of the QservSyncJob
QservSyncJob_start(k, nulls) ==
    /\ job.calls < MaxCalls
    /\ k \in 0..MaxChildren /\ nulls \subseteq 1..k
    /\ LET jc == [jobAndChildren EXCEPT !.job.calls = @ + 1]
       IN  IF ~Job_assertState(jc.job, "CREATED")
           THEN jobBecomes([jc EXCEPT !.job.threw = TRUE])
           ELSE LET armed == [jc EXCEPT
                                !.job._heartbeatTimer =
                                    IF jc.job._heartbeatTimerIvalSec # 0 THEN "armed" ELSE @]
                    impl == QservSyncJob_startImplNulls(armed, k, nulls)
                IN  jobBecomes(IF isFinished(impl.job)
                               THEN [impl EXCEPT !.job.notifying = @ + 1]
                               ELSE impl)
    /\ UNCHANGED jobEntered

\* cancel() of a job that holds a null pointer calls ptr->cancel() on it
\* (QservSyncJob::cancelImpl), which is undefined: such a call is not followed
SyncNext ==
    /\ \/ \E k \in 0..MaxChildren, nulls \in SUBSET ChildIds : QservSyncJob_start(k, nulls)
       \/ nullRequests(job, children) = {} /\ Job_cancelCheck
       \/ \E e \in jobEntered : nullRequests(job, children) = {} /\ Job_cancelLocked(e)
       \/ Job_heartbeatTimerFires
       \/ \E ec \in {"ok", "aborted"} : Job_heartbeatCheck(ec)
       \/ \E e \in jobEntered : Job_heartbeatLocked(e)
       \/ \E c \in ChildIds, ext \in {"SUCCESS", "SERVER_ERROR"} : childFinishes(c, ext)
       \/ \E c \in ChildIds : onRequestFinishCheck(c)
       \/ \E e \in jobEntered : onRequestFinishLocked(e)
       \/ Job_notifyImpl
    /\ UNCHANGED <<focus, requestVars, lockerVars, workerVars, connVars, mutexVars>>

CtlNext ==
    /\ RequestNext \/ JobNext
    /\ UNCHANGED <<lockerVars, workerVars, connVars, mutexVars>>

\* no request and no job is exercised
CtlIdle ==
    /\ focus = "none"
    /\ deleteRequest = NewRequest(FALSE, FALSE, 0)
    /\ requestEntered = {}
    /\ job = NewJob("CreateReplicaJob", 0, 0)
    /\ children = [c \in ChildIds |-> NewChild]
    /\ jobEntered = {}

(***************************************************************************)
(* The mutexes of a Job, a Request and a MessengerConnector                *)
(*                                                                         *)
(* Every public method and handler makes a util::Lock on the _mtx of its   *)
(* object and holds it until it returns.  A thread is described by the     *)
(* methods it is in; the mutexes it holds are those of the frames that     *)
(* have made their lock.  Notifications are made from threads of their     *)
(* own (Request::notify, Job::notify) and so start with an empty stack.    *)
(***************************************************************************)

MutexThreads == {"client", "timer", "notifier"}

\* the methods a thread is sent into from outside
EntryPoints ==
    {"Job::cancel", "Job::expired", "CreateReplicaJob::onRequestFinish",
     "Request::start", "Request::cancel", "Request::expired",
     "MessengerConnector::requestSent"}

\* the mutex that the util::Lock of a method takes
mutexOf(method) ==
    IF method \in {"Job::cancel", "Job::expired", "CreateReplicaJob::onRequestFinish"}
    THEN "Job::_mtx"
    ELSE IF method \in {"Request::start", "Request::cancel", "Request::expired"}
    THEN "Request::_mtx"
    ELSE "MessengerConnector::_mtx"

\* the methods that return, before they make their lock, when they find
\* state() == FINISHED
testsBeforeLock(method) ==
    method \in {"Job::cancel", "Job::expired", "CreateReplicaJob::onRequestFinish",
                "Request::cancel", "Request::expired"}

\* the method of another object that a method calls below its lock:
\* Job::cancel, Job::expired and a failing onRequestFinish call
\* finish(lock, ..), which calls cancelImpl(lock), which calls ptr->cancel()
\* on each request; Request::start calls startImpl(lock), which calls
\* send(lock), which hands the buffer to the connector's sendImpl
Callee(method) ==
    IF method \in {"Job::cancel", "Job::expired", "CreateReplicaJob::onRequestFinish"}
    THEN "Request::cancel"
    ELSE IF method = "Request::start"
    THEN "MessengerConnector::sendImpl"
    ELSE "none"

Frame(method, locked, called) == [method |-> method, locked |-> locked, called |-> called]

MutexInit == callStack = [t \in MutexThreads |-> <<>>]

top(t) == callStack[t][Len(callStack[t])]

pop(t) == [callStack EXCEPT ![t] = SubSeq(@, 1, Len(@) - 1)]

\* the mutexes a thread holds
heldMutexes(t) ==
    {mutexOf(callStack[t][i].method) :
        i \in {k \in 1..Len(callStack[t]) : callStack[t][k].locked}}

\* a thread of the client, of the io_service or of a notification enters a method
Thread_enter(t, method) ==
    /\ callStack[t] = <<>>
    /\ callStack' = [callStack EXCEPT ![t] = <<Frame(method, FALSE, FALSE)>>]

\* if (state() == State::FINISHED) return;  before the lock is made
Thread_returnBeforeLock(t) ==
    /\ callStack[t] # <<>>
    /\ ~top(t).locked
    /\ testsBeforeLock(top(t).method)
    /\ callStack' = pop(t)

\* util::Lock lock(_mtx, ..): the thread waits until no thread holds the mutex
Thread_lock(t) ==
    /\ callStack[t] # <<>>
    /\ ~top(t).locked
    /\ \A u \in MutexThreads : mutexOf(top(t).method) \notin heldMutexes(u)
    /\ callStack' = [callStack EXCEPT ![t][Len(callStack[t])].locked = TRUE]

\* the call into the other object, made with the lock held
Thread_call(t) ==
    /\ callStack[t] # <<>>
    /\ top(t).locked
    /\ ~top(t).called
    /\ Callee(top(t).method) # "none"
    /\ callStack' = [callStack EXCEPT ![t] =
                        Append([@ EXCEPT ![Len(@)].called = TRUE],
                               Frame(Callee(top(t).method), FALSE, FALSE))]

\* the method returns and its util::Lock goes out of scope
Thread_return(t) ==
    /\ callStack[t] # <<>>
    /\ top(t).locked
    /\ callStack' = pop(t)

MutexNext ==
    /\ \E t \in MutexThreads :
          \/ \E method \in EntryPoints : Thread_enter(t, method)
          \/ Thread_returnBeforeLock(t)
          \/ Thread_lock(t)
          \/ Thread_call(t)
          \/ Thread_return(t)
    /\ UNCHANGED <<lockerVars, workerVars, connVars, ctlVars>>

Init == LockerInit /\ WorkerInit /\ ConnInit /\ CtlIdle /\ MutexInit

CtlInit == LockerInit /\ WorkerInit /\ ConnInit /\ RequestInit /\ JobInit /\ MutexInit

SpecLocker == Init /\ [][LockerNext]_vars

SpecWorker == Init /\ [][WorkerNext]_vars

SpecProcessor == Init /\ [][ProcessorNext]_vars

SpecConn == Init /\ [][ConnNext]_vars

SpecCtl == CtlInit /\ [][CtlNext]_vars

VerifyJobInit == LockerInit /\ WorkerInit /\ ConnInit /\ VerifyInit /\ MutexInit

SpecVerify == VerifyJobInit /\ [][VerifyNext]_vars

DeleteWorkerJobInit == LockerInit /\ WorkerInit /\ ConnInit /\ DeleteWorkerInit /\ MutexInit

SpecDeleteWorker == DeleteWorkerJobInit /\ [][DeleteWorkerNext]_vars

SpecMutex == Init /\ [][MutexNext]_vars

QservSyncJobInit == LockerInit /\ WorkerInit /\ ConnInit /\ SyncInit /\ MutexInit

SpecSync == QservSyncJobInit /\ [][SyncNext]_vars

\* the connector with a client that also sends ids that are registered
ConnResendNext ==
    \/ ConnNext
    \/ /\ \E id \in ConnIds : sendImplRegistered(id)
       /\ UNCHANGED <<lockerVars, workerVars, ctlVars, mutexVars>>

SpecConnResend == Init /\ [][ConnResendNext]_vars

\* one request on its own
RequestOnlyInit == CtlInit /\ focus = "deleteRequest"

RequestOnlyNext == RequestNext /\ UNCHANGED <<lockerVars, workerVars, connVars, mutexVars>>

\* the clock goes on, the threads of the io_service run the handlers that
\* are due, and a handler that waits for the request's mutex gets it; the
\* client and the worker are free to do nothing
RequestFairness ==
    /\ WF_requestVars(Request_expirationTimerFires)
    /\ WF_requestVars(\E ec \in {"ok", "aborted"} : Request_expiredCheck(ec))
    /\ WF_requestVars(\E e \in requestEntered : Request_expiredLocked(e))

SpecRequestLive == RequestOnlyInit /\ [][RequestOnlyNext]_vars /\ RequestFairness

(***************************************************************************)
(* Claims                                                                  *)
(***************************************************************************)

\* the call that the locker has just served
lockerServed(op) == lockerCall'.op = op /\ lockerVars' # lockerVars

\* C7: once lock(c, o1) has returned true, lock(c, o2) of another owner returns
\* false and leaves c with o1; a repeated lock(c, o1) returns true; release(c)
\* frees c whoever owns it and returns true; a chunk changes or loses its owner
\* only through release(c) or release(owner); after a release another owner's
\* lock succeeds; the owner recorded for a chunk is never the empty string.
C7_ExclusiveOwnership ==
    /\ [](\A c \in DOMAIN _chunk2owner : _chunk2owner[c] \in Owners)
    /\ [][/\ \A c \in DOMAIN _chunk2owner :
                \/ c \in DOMAIN _chunk2owner' /\ _chunk2owner'[c] = _chunk2owner[c]
                \/ lockerServed("release") /\ lockerCall'.chunk = c
                \/ lockerServed("releaseOwner") /\ lockerCall'.owner = _chunk2owner[c]
           /\ lockerServed("lock") /\ ~lockerCall'.threw =>
                LET ch == lockerCall'.chunk
                    ow == lockerCall'.owner
                IN  IF isLocked(ch) /\ _chunk2owner[ch] # ow
                    THEN lockerCall'.ret = FALSE /\ _chunk2owner' = _chunk2owner
                    ELSE /\ lockerCall'.ret = TRUE
                         /\ ch \in DOMAIN _chunk2owner' /\ _chunk2owner'[ch] = ow
           /\ lockerServed("release") =>
                /\ lockerCall'.chunk \notin DOMAIN _chunk2owner'
                /\ lockerCall'.ret = isLocked(lockerCall'.chunk)
      ]_vars

\* C7 witness: a lock by a second owner has just been refused on a chunk that
\* the first owner holds.
C7_Witness ==
    /\ lockerCall.op = "lock"
    /\ ~lockerCall.threw
    /\ lockerCall.ret = FALSE
    /\ isLocked(lockerCall.chunk)
    /\ _chunk2owner[lockerCall.chunk] \in Owners \ {lockerCall.owner}

\* the replication and deletion requests of the new and in-progress queues that
\* are on the (database, chunk) of the given request
activeOnTarget(request) ==
    {p \in _newRequests \cup Range(_inProgressRequests) :
        /\ workerRequests[p].type \in {"REPLICATE", "DELETE"}
        /\ workerRequests[p].database = request.database
        /\ workerRequests[p].chunk = request.chunk}

\* C8: enqueueForReplication / enqueueForDeletion on a (database, chunk) that a
\* replication or deletion request of the new or in-progress queue is on answers
\* BAD / DUPLICATE with the id of that request and changes no queue; the two
\* queues never hold two such requests on one (database, chunk).
C8_DuplicateRejected ==
    /\ [](\A p \in _newRequests \cup Range(_inProgressRequests) :
             workerRequests[p].type \in {"REPLICATE", "DELETE"} =>
                 activeOnTarget(workerRequests[p]) = {p})
    /\ [][\A request \in WorkerTargets, valid \in BOOLEAN :
             /\ enqueueForReplication(request, valid) \/ enqueueForDeletion(request, valid)
             /\ activeOnTarget(request) # {}
             => /\ response'.status = "BAD"
                /\ response'.status_ext = "DUPLICATE"
                /\ response'.duplicate_request_id \in activeOnTarget(request)
                /\ UNCHANGED <<workerRequests, _newRequests, _inProgressRequests,
                               _finishedRequests>>
      ]_vars

\* C8 witness: a request has just been rejected as the duplicate of a request
\* that a thread is processing.
C8_Witness ==
    /\ response.status = "BAD"
    /\ response.status_ext = "DUPLICATE"
    /\ response.duplicate_request_id \in Range(_inProgressRequests)

\* ---- Request and Job

\* how far a state is along CREATED -> IN_PROGRESS -> FINISHED
stateRank(state) ==
    CASE state = "CREATED" -> 0 [] state = "IN_PROGRESS" -> 1 [] state = "FINISHED" -> 2

\* the notifier threads launched for an object, run or not
notifications(object) == object.notifying + object.notified

\* C1: however cancel, the expiration timer and analyze race, the request
\* makes the terminal transition once: once FINISHED its state and extended
\* state never change, one notifier thread is launched when it becomes
\* FINISHED and none otherwise, so the callback is made at most once and only
\* for a FINISHED request.
C1_RequestFinishesOnce ==
    /\ [](notifications(deleteRequest) =
            IF deleteRequest._state = "FINISHED" THEN 1 ELSE 0)
    /\ [][deleteRequest._state = "FINISHED" =>
            /\ deleteRequest'._state = "FINISHED"
            /\ deleteRequest'._extendedState = deleteRequest._extendedState
            /\ notifications(deleteRequest') = notifications(deleteRequest)]_vars

\* C1 happens: the request was cancelled and its callback made, while the
\* worker's response and the expiration timer, which raced with the cancel,
\* wait for the mutex
C1_Witness ==
    /\ deleteRequest._state = "FINISHED"
    /\ deleteRequest._extendedState = "CANCELLED"
    /\ deleteRequest.notified = 1
    /\ \E e \in requestEntered : e.handler = "analyze"
    /\ \E e \in requestEntered : e.handler = "expired"

\* C2: a job that is FINISHED - by start() itself, by a child's completion, by
\* cancel or by expiration - has had one notifier thread launched, a job that
\* is not has had none, and once FINISHED its state and extended state never
\* change.
C2_JobFinishesOnce ==
    /\ [](notifications(job) = IF job._state = "FINISHED" THEN 1 ELSE 0)
    /\ [][job._state = "FINISHED" =>
            /\ job'._state = "FINISHED"
            /\ job'._extendedState = job._extendedState
            /\ notifications(job') = notifications(job)]_vars

\* C2 happens: the job expired and its callback was made, while a cancel and
\* the completion of a child, which raced with the expiration, wait for the mutex
C2_Witness ==
    /\ job._state = "FINISHED"
    /\ job._extendedState = "TIMEOUT_EXPIRED"
    /\ job.notified = 1
    /\ \E e \in jobEntered : e.handler = "cancel"
    /\ \E e \in jobEntered : e.handler = "onRequestFinish"

\* C3: the state of the request and the state of the job never move backwards
\* along CREATED -> IN_PROGRESS -> FINISHED.
C3_StateMovesForward ==
    [][/\ stateRank(deleteRequest'._state) >= stateRank(deleteRequest._state)
       /\ stateRank(job'._state) >= stateRank(job._state)]_vars

\* C3 happens: a request that was cancelled before it was started went from
\* CREATED to FINISHED, and the start() that came after threw
C3_Witness ==
    /\ deleteRequest._state = "FINISHED"
    /\ deleteRequest._extendedState = "CANCELLED"
    /\ deleteRequest.threw
    /\ deleteRequest.sent = 0
    /\ deleteRequest._requestExpirationTimer = "off"

C4_OneInFlight == Cardinality(onWire) <= 1

\* the requests whose response was received in full
responded == {n.id : n \in {x \in request2notify \cup notified : x.success}}

\* C5: with no failure, cancellation or stop, request number id (in the order
\* of submission) is written when exactly the responses to the requests
\* 1 .. id-1 have been received in full.
C5_SubmissionOrder ==
    [][faults' = 0 => \A id \in onWire' \ onWire : responded' = 1..(id - 1)]_vars

\* C5 happens: the second request is on the wire after the response to the
\* first, while a third waits, and nothing went wrong
C5_Witness ==
    /\ faults = 0
    /\ responded = {1}
    /\ onWire = {2}
    /\ _requests # <<>>

\* an error in the exchange of the current request while its response is read
receiveFails ==
    /\ _currentRequest # NoId
    /\ \/ responseReceived("fail", "ok")
       \/ responseReceived("ok", "fail")

\* an error in the exchange of the current request while it is written
sendFails == _currentRequest # NoId /\ requestSent("fail")

\* C9 as stated: no socket error reaches the owner of a request - the
\* connector never notifies a request of a failure on its own (only stop()
\* does).
C9_FailureNeverSeen ==
    \A n \in request2notify \cup notified : n.by = "responseReceived" => n.success

\* C9, amended: a failure to resolve, to connect or to write is retried inside
\* the connector (the queue keeps every request, nobody is notified); a
\* failure to read the response takes the request out of the connector,
\* restarts the connection and notifies the owner with success = false.
C9_ReceiveFailureNotified ==
    [][/\ resolved("fail") \/ connected("fail") =>
            UNCHANGED <<_requests, _currentRequest, request2notify>>
       /\ sendFails =>
            /\ Range(_requests') = Range(_requests) \cup {_currentRequest}
            /\ request2notify' = request2notify
       /\ receiveFails =>
            /\ _requests' = _requests
            /\ _currentRequest' = NoId
            /\ _state' = "STATE_CONNECTING"
            /\ request2notify' = request2notify
                    \cup {Notification(_currentRequest, FALSE, "responseReceived")}
      ]_vars

\* C9 happens: the owner of a request was notified of a failure by
\* responseReceived, and the connector goes on with the next request
C9_Witness ==
    /\ \E n \in notified : n.by = "responseReceived" /\ ~n.success
    /\ _state = "STATE_COMMUNICATING"
    /\ _currentRequest # NoId

\* C10: when the write of the current request fails it is put at the front of
\* the queue, nobody is notified and the connection is restarted; until it is
\* written again (or cancelled, or the connector stopped) it stays at the
\* front and no other request becomes current.
C10_RequeuedFirst ==
    /\ [](requeued # NoId =>
            /\ _currentRequest = NoId
            /\ _requests # <<>>
            /\ Head(_requests) = requeued)
    /\ [][sendFails =>
            /\ _requests' = <<_currentRequest>> \o _requests
            /\ _currentRequest' = NoId
            /\ requeued' = _currentRequest
            /\ _state' = "STATE_CONNECTING"
            /\ UNCHANGED <<request2notify, notified>>]_vars

\* C10 happens: a request whose write failed is at the front, ahead of
\* requests submitted later, while the connection is being re-established
C10_Witness ==
    /\ requeued # NoId
    /\ Len(_requests) >= 2
    /\ _state = "STATE_CONNECTING"
    /\ \A n \in request2notify \cup notified : n.id # requeued

\* C11: once cancel(id) has returned, the onFinish callback of the request id
\* is not made any more - whether the request was queued, was the current
\* one, or had just been taken out by a handler on another thread.
C11_NoCallbackAfterCancel ==
    [][\A n \in request2notify : parseAndNotify(n) => n.id \notin cancelled]_vars

\* the request id is in flight: it is the current request and was written on
\* the present connection
inFlight(id) == id # NoId /\ id = _currentRequest /\ id \in onWire

\* C12: cancel(id) of the request in flight tears the connection down and
\* starts it again (the socket is closed, a new resolution is under way),
\* takes the request out for good, and leaves the queue as it was, so that
\* queued plus current requests are one fewer; a cancelled request is never
\* registered or on the wire again.
C12_CancelInFlight ==
    /\ [](\A id \in cancelled :
            id \notin Range(_requests) /\ id # _currentRequest /\ id \notin onWire)
    /\ [][\A id \in ConnIds : inFlight(id) /\ cancel(id) =>
            /\ _state' = "STATE_CONNECTING"
            /\ ~isConnected'
            /\ BagIn(AsyncOp("resolve", "live"), asyncOps')
            /\ onWire' = {}
            /\ _currentRequest' = NoId
            /\ _requests' = _requests]_vars

\* C13: a job that is FINISHED with an extended state other than SUCCESS has
\* been through finish(): cancelImpl has cleared its collection of requests,
\* every child it launched is FINISHED (cancelled, if it was not already), and
\* neither the heartbeat timer nor the expiration timer is still armed.
C13_FinishedThroughFinish ==
    job._state = "FINISHED" /\ job._extendedState # "SUCCESS" =>
        /\ job._requests = {}
        /\ \A c \in job.launched : children[c]._state = "FINISHED"
        /\ job._heartbeatTimer # "armed"
        /\ job._expirationTimer # "armed"

\* a job with counters (QservSyncJob, QservGetReplicasJob) terminates because
\* its children have all reported
terminatesByChildren ==
    /\ job.kind # "CreateReplicaJob"
    /\ job._state = "IN_PROGRESS"
    /\ job'._state = "FINISHED"
    /\ job'._extendedState \in {"SUCCESS", "FAILED"}

\* C14 as stated: when the job terminates after its k children have finished,
\* numLaunched = numFinished = k, for FAILED as for SUCCESS.
C14_CountersEqualK ==
    [][terminatesByChildren =>
            /\ job'._numLaunched = Cardinality(job.launched)
            /\ job'._numFinished = Cardinality(job.launched)]_vars

\* C14, amended: the last child's report makes numFinished = numLaunched = k;
\* a job that terminates with SUCCESS keeps these counters, and for a job
\* that terminates with FAILED finish() calls cancelImpl, which sets
\* numLaunched, numFinished and numSuccess to 0 and empties the collection.
C14_CountersResetOnFailure ==
    [][terminatesByChildren =>
            /\ job._numFinished + 1 = job._numLaunched
            /\ job._numLaunched = Cardinality(job.launched)
            /\ IF job'._extendedState = "SUCCESS"
               THEN /\ job'._numLaunched = Cardinality(job.launched)
                    /\ job'._numFinished = Cardinality(job.launched)
                    /\ job'._numSuccess = Cardinality(job.launched)
               ELSE /\ job'._numLaunched = 0
                    /\ job'._numFinished = 0
                    /\ job'._numSuccess = 0
                    /\ job'._requests = {}]_vars

\* C14 happens: a QservSyncJob that launched two requests, both finished and
\* one of them failed, is FINISHED with FAILED and its counters are 0
C14_Witness ==
    /\ job.kind = "QservSyncJob"
    /\ job._state = "FINISHED"
    /\ job._extendedState = "FAILED"
    /\ Cardinality(job.launched) >= 2
    /\ \A c \in job.launched : children[c]._state = "FINISHED"
    /\ \E c \in job.launched : children[c]._extendedState = "SUCCESS"
    /\ job._numLaunched = 0
    /\ job._numFinished = 0

\* C15: when a CreateReplicaJob terminates because its requests have all
\* finished, its replicaData holds the result of every request that finished
\* with SUCCESS, whatever the order in which the requests finish and their
\* callbacks run.
C15_AllResultsRecorded ==
    [][/\ job.kind = "CreateReplicaJob"
       /\ job._state = "IN_PROGRESS"
       /\ job'._state = "FINISHED"
       /\ job'._extendedState \in {"SUCCESS", "FAILED"}
       => job'._replicaData =
            {c \in job.launched : children[c]._extendedState = "SUCCESS"}]_vars

\* the extended state that the claim gives for a response; "" where it gives
\* none (the request keeps tracking, or the status is not one of the protocol)
C16_Expected(r, a) ==
    IF ~a.success THEN "CLIENT_ERROR"
    ELSE CASE a.status = "SUCCESS" -> "SUCCESS"
           [] a.status = "FAILED" -> "SERVER_ERROR"
           [] a.status = "CANCELLED" -> "SERVER_CANCELLED"
           [] a.status = "BAD" ->
                IF a.status_ext = "EXT_STATUS_DUPLICATE" /\ r._allowDuplicate /\ r._keepTracking
                THEN "" ELSE "SERVER_BAD"
           [] a.status = "QUEUED" -> IF r._keepTracking THEN "" ELSE "SERVER_QUEUED"
           [] a.status = "IN_PROGRESS" -> IF r._keepTracking THEN "" ELSE "SERVER_IN_PROGRESS"
           [] a.status = "IS_CANCELLING" ->
                IF r._keepTracking THEN "" ELSE "SERVER_IS_CANCELLING"
           [] OTHER -> ""

\* C16: a response that analyze handles while the request is in progress
\* finishes the request with the extended state of the table above.
C16_ResponseToExtendedState ==
    [][\A e \in requestEntered :
            /\ DeleteRequest_analyzeLocked(e)
            /\ deleteRequest._state = "IN_PROGRESS"
            /\ C16_Expected(deleteRequest, e.arg) # ""
            => /\ deleteRequest'._state = "FINISHED"
               /\ deleteRequest'._extendedState = C16_Expected(deleteRequest, e.arg)]_vars

\* C16 happens: a request that does not keep tracking was finished by the
\* answer IS_CANCELLING and its callback made
C16_Witness ==
    /\ deleteRequest._state = "FINISHED"
    /\ deleteRequest._extendedState = "SERVER_IS_CANCELLING"
    /\ ~deleteRequest._keepTracking
    /\ deleteRequest.notified = 1

\* the answers after which a request that keeps tracking goes on polling
TrackedStatuses == {"QUEUED", "IN_PROGRESS", "IS_CANCELLING"}

\* C17: with keepTracking set, the answer QUEUED, IN_PROGRESS or IS_CANCELLING
\* leaves the request IN_PROGRESS and arms the poll timer once; a firing of
\* the timer sends one status poll and arms nothing; the answer SUCCESS
\* finishes the request with SUCCESS and arms nothing.  So the timer is armed
\* once for each such answer: the polls sent never exceed the waits, and the
\* waits exceed the polls by at most the one that is pending.
C17_PollingLoop ==
    /\ [](/\ deleteRequest.polls <= deleteRequest.waits
          /\ deleteRequest.waits <= deleteRequest.polls + 1
          /\ deleteRequest._timer = "armed" => deleteRequest.waits = deleteRequest.polls + 1)
    /\ [][\A e \in requestEntered :
            /\ DeleteRequest_analyzeLocked(e) /\ deleteRequest._state = "IN_PROGRESS"
               /\ deleteRequest._keepTracking /\ e.arg.success
               /\ e.arg.status \in TrackedStatuses
               => /\ deleteRequest'._state = "IN_PROGRESS"
                  /\ deleteRequest'._timer = "armed"
                  /\ deleteRequest'.waits = deleteRequest.waits + 1
                  /\ deleteRequest'.sent = deleteRequest.sent
            /\ DeleteRequest_analyzeLocked(e) /\ deleteRequest._state = "IN_PROGRESS"
               /\ e.arg.success /\ e.arg.status = "SUCCESS"
               => /\ deleteRequest'._state = "FINISHED"
                  /\ deleteRequest'._extendedState = "SUCCESS"
                  /\ deleteRequest'.waits = deleteRequest.waits
            /\ DeleteRequest_awakenLocked(e) /\ deleteRequest._state = "IN_PROGRESS"
               => /\ deleteRequest'.polls = deleteRequest.polls + 1
                  /\ deleteRequest'.sent = deleteRequest.sent + 1
                  /\ deleteRequest'.waits = deleteRequest.waits
                  /\ deleteRequest'._timer = deleteRequest._timer]_vars

\* C17 happens: a request that keeps tracking got three answers that made it
\* wait, polled three times and was then finished by the answer SUCCESS
C17_Witness ==
    /\ deleteRequest._keepTracking
    /\ deleteRequest._state = "FINISHED"
    /\ deleteRequest._extendedState = "SUCCESS"
    /\ deleteRequest.waits = 3
    /\ deleteRequest.polls = 3
    /\ deleteRequest.sent = 0
    /\ deleteRequest._duplicateRequestId = ""

\* C18: the answer BAD with the extended status DUPLICATE makes the request
\* record the duplicate's id; with allowDuplicate and keepTracking it stays
\* IN_PROGRESS and waits, otherwise it finishes with SERVER_BAD; the recorded
\* id is never dropped, and every status poll sent while it is recorded asks
\* about the duplicate's id and not about the request's own.
C18_DuplicateTracked ==
    [][/\ deleteRequest._duplicateRequestId # "" =>
                deleteRequest'._duplicateRequestId = deleteRequest._duplicateRequestId
       /\ \A e \in requestEntered :
            /\ DeleteRequest_analyzeLocked(e) /\ deleteRequest._state = "IN_PROGRESS"
               /\ e.arg.success /\ e.arg.status = "BAD"
               /\ e.arg.status_ext = "EXT_STATUS_DUPLICATE"
               => /\ deleteRequest'._duplicateRequestId = DuplicateId
                  /\ IF deleteRequest._allowDuplicate /\ deleteRequest._keepTracking
                     THEN /\ deleteRequest'._state = "IN_PROGRESS"
                          /\ deleteRequest'._timer = "armed"
                     ELSE /\ deleteRequest'._state = "FINISHED"
                          /\ deleteRequest'._extendedState = "SERVER_BAD"
            /\ DeleteRequest_awakenLocked(e) /\ deleteRequest._state = "IN_PROGRESS"
               /\ deleteRequest._duplicateRequestId # ""
               => /\ deleteRequest'.polls = deleteRequest.polls + 1
                  /\ deleteRequest'.pollId = DuplicateId
                  /\ deleteRequest'.pollId # deleteRequest._id]_vars

\* C18 happens: a request that allows duplicates and keeps tracking was told
\* of a duplicate and has since polled twice for the duplicate
C18_Witness ==
    /\ deleteRequest._allowDuplicate /\ deleteRequest._keepTracking
    /\ deleteRequest._state = "IN_PROGRESS"
    /\ deleteRequest._duplicateRequestId = DuplicateId
    /\ deleteRequest.waits = 3
    /\ deleteRequest.polls = 2
    /\ deleteRequest.pollId = DuplicateId
    /\ deleteRequest._extendedServerStatus = "EXT_STATUS_NONE"

\* C19, the request: a run of Request::expired that was aborted, or that
\* finds the request FINISHED, changes nothing of the request but the timer
\* it consumes; any other run makes it FINISHED with TIMEOUT_EXPIRED and
\* launches the notification.
C19_RequestExpired ==
    /\ \A ec \in {"ok", "aborted"} :
            Request_expiredCheck(ec) =>
                /\ deleteRequest' = [deleteRequest EXCEPT !._requestExpirationTimer = "off"]
                /\ ec = "aborted" \/ deleteRequest._state = "FINISHED" =>
                        requestEntered' = requestEntered
    /\ \A e \in requestEntered :
            Request_expiredLocked(e) =>
                IF deleteRequest._state = "FINISHED"
                THEN deleteRequest' = deleteRequest
                ELSE /\ deleteRequest'._state = "FINISHED"
                     /\ deleteRequest'._extendedState = "TIMEOUT_EXPIRED"
                     /\ deleteRequest'.notifying = deleteRequest.notifying + 1

\* C19, the job: likewise, and when the job expires every child that it
\* launched is FINISHED afterwards; a child that was FINISHED stays as it
\* was, whatever the job had heard of it, and any other is cancelled.
C19_JobExpired ==
    /\ \A ec \in {"ok", "aborted"} :
            Job_expiredCheck(ec) =>
                /\ job' = [job EXCEPT !._expirationTimer = "off"]
                /\ children' = children
                /\ ec = "aborted" \/ job._state = "FINISHED" => jobEntered' = jobEntered
    /\ \A e \in jobEntered :
            Job_expiredLocked(e) =>
                IF job._state = "FINISHED"
                THEN job' = job /\ children' = children
                ELSE /\ job'._state = "FINISHED"
                     /\ job'._extendedState = "TIMEOUT_EXPIRED"
                     /\ job'.notifying = job.notifying + 1
                     /\ \A c \in job.launched :
                            IF children[c]._state = "FINISHED"
                            THEN children'[c] = children[c]
                            ELSE /\ children'[c]._state = "FINISHED"
                                 /\ children'[c]._extendedState = "CANCELLED"

\* C19: what the expiration timer of a request and of a job does when it
\* fires: nothing if it was aborted or the object is FINISHED, else the object
\* becomes FINISHED with TIMEOUT_EXPIRED and a job cancels its unfinished
\* children.
C19_Expired == [][C19_RequestExpired /\ C19_JobExpired]_vars

\* C19 happens: a job expired while one child had finished with SUCCESS,
\* unheard by the job, and the other was still running
C19_Witness ==
    /\ job._state = "FINISHED"
    /\ job._extendedState = "TIMEOUT_EXPIRED"
    /\ job._expirationTimer = "off"
    /\ job.launched = {1, 2}
    /\ job._replicaData = {}
    /\ children[1]._extendedState = "SUCCESS"
    /\ children[2]._extendedState = "CANCELLED"

\* C20: start() on a request or on a job that is not CREATED throws and
\* changes nothing else: the state and the extended state stay, no message is
\* sent, no timer is started, no child is launched and nobody is notified.
\* From CREATED it does not throw: the request is IN_PROGRESS with its
\* message sent, the job is IN_PROGRESS or FINISHED.
C20_StartOnlyFromCreated ==
    [][/\ Request_start =>
            IF deleteRequest._state = "CREATED"
            THEN /\ deleteRequest'._state = "IN_PROGRESS"
                 /\ deleteRequest'.sent = deleteRequest.sent + 1
                 /\ deleteRequest'.threw = deleteRequest.threw
            ELSE deleteRequest' = [deleteRequest EXCEPT !.calls = @ + 1, !.threw = TRUE]
       /\ \A k \in 0..MaxChildren, failAt \in 0..MaxChildren,
             failure \in {"NONE", "CONFIG_ERROR", "FAILED"} :
            Job_start(k, failAt, failure) =>
                IF job._state = "CREATED"
                THEN /\ job'._state \in {"IN_PROGRESS", "FINISHED"}
                     /\ job'.threw = job.threw
                ELSE /\ job' = [job EXCEPT !.calls = @ + 1, !.threw = TRUE]
                     /\ children' = children]_vars

\* C20 happens: the second start() of a job that had launched one child threw
C20_Witness ==
    /\ job.threw
    /\ job.calls = 2
    /\ job._state = "IN_PROGRESS"
    /\ job.launched = {1}
    /\ children[1]._state = "IN_PROGRESS"
    /\ children[2]._state = "CREATED"

\* C21: sendImpl of an id that the connector holds, in the queue or as the
\* request in flight, throws and leaves the connector as it was.
C21_SendRegisteredThrows ==
    [][\A id \in ConnIds : sendImplRegistered(id) =>
            /\ sendThrew'
            /\ UNCHANGED <<_state, _requests, _currentRequest, asyncOps, isConnected,
                           onWire, requeued>>]_vars

\* the name resolutions started and not yet handled, whatever became of them
resolveOps(ops) ==
    CopiesIn(AsyncOp("resolve", "live"), ops) + CopiesIn(AsyncOp("resolve", "ok"), ops)
    + CopiesIn(AsyncOp("resolve", "fail"), ops) + CopiesIn(AsyncOp("resolve", "aborted"), ops)

\* a handler runs for an operation that failed: the resolution, the
\* connection, the write, the read, or the synchronous reads of the response
socketErrorHandled ==
    \/ resolved("fail")
    \/ connected("fail")
    \/ requestSent("fail")
    \/ \E syncRead \in {"ok", "fail"} : responseReceived("fail", syncRead)
    \/ responseReceived("ok", "fail")

\* C22: the handler of a socket error starts no name resolution itself: the
\* next resolution is left to the retry timer.
C22_NoImmediateResolve ==
    [][socketErrorHandled => resolveOps(asyncOps') <= resolveOps(asyncOps)]_vars

\* C23: a request that was started with a non-zero expiration interval
\* becomes FINISHED, whatever the worker and the client do or fail to do.
C23_EventuallyFinished ==
    (deleteRequest._state = "IN_PROGRESS" /\ deleteRequest._requestExpirationIvalSec # 0)
        ~> (deleteRequest._state = "FINISHED")

\* C23 happens: a request whose message was never answered has expired
C23_Witness ==
    /\ deleteRequest._requestExpirationIvalSec # 0
    /\ deleteRequest._state = "FINISHED"
    /\ deleteRequest._extendedState = "TIMEOUT_EXPIRED"
    /\ deleteRequest.sent = 1
    /\ deleteRequest.polls = 0
    /\ deleteRequest.notified = 1

\* the job has replication requests in flight
replicating ==
    /\ job.kind = "CreateReplicaJob"
    /\ \E c \in job.launched : children[c]._state = "IN_PROGRESS"

\* C24: while the job has replication requests in flight for its chunk, the
\* chunk is locked in the ChunkLocker and the job is its owner.
C24_LockedWhileReplicating ==
    replicating => isLocked(JobChunk) /\ _chunk2owner[JobChunk] = JobId

\* a CreateReplicaJob that is CREATED takes a step that may be its start()
createReplicaJobLeavesCreated ==
    /\ job.kind = "CreateReplicaJob"
    /\ job._state = "CREATED"
    /\ job'._state # "CREATED"

\* the job is finished within start() with the given extended state: no
\* request is launched, no child is touched, the notification is under way
finishedInStart(extendedState) ==
    /\ job'._state = "FINISHED"
    /\ job'._extendedState = extendedState
    /\ job'.launched = {} /\ job'._requests = {}
    /\ children' = children
    /\ job'.notifying = job.notifying + 1

\* the checks of the configuration fail
misconfigured(w) ==
    \/ w.databaseFamily \notin Families
    \/ w.sourceWorker \notin KnownWorkers
    \/ w.destinationWorker \notin KnownWorkers
    \/ w.sourceWorker = w.destinationWorker

\* C25: start() of a CreateReplicaJob with an unknown family, an unknown
\* worker or the same worker as source and destination finishes the job with
\* CONFIG_ERROR; with a destination that has a replica of the chunk it
\* finishes the job with FAILED; in both cases within start() and with no
\* request launched.
C25_ValidationFails ==
    [][createReplicaJobLeavesCreated =>
        \A w \in Worlds :
            CreateReplicaJob_start(w) =>
                /\ misconfigured(w) => finishedInStart("CONFIG_ERROR")
                /\ ~misconfigured(w) /\ w.destinationFound /\ w.destinationReplicas # <<>>
                        => finishedInStart("FAILED")]_vars

\* C25 happens: a CreateReplicaJob finished with CONFIG_ERROR or FAILED
\* before it launched anything, and its callback was made
C25_Witness ==
    /\ job.kind = "CreateReplicaJob"
    /\ job._state = "FINISHED"
    /\ job._extendedState = "CONFIG_ERROR"
    /\ job.launched = {}
    /\ job.calls = 1
    /\ job.notified = 1

TerminalStatuses == {"STATUS_SUCCEEDED", "STATUS_FAILED", "STATUS_CANCELLED"}

\* the request id is the same object with the same fields after the step,
\* but for its status
sameButStatus(id) ==
    /\ id \in DOMAIN workerRequests'
    /\ [workerRequests' EXCEPT ![id]._status = workerRequests[id]._status][id] = workerRequests[id]

held(i) == IF i \in DOMAIN _threads THEN _threads[i].request ELSE NoId

\* C28: fetchNextForProcessing gives the calling thread a request of the new
\* queue that no request of the new queue exceeds in priority; in the same
\* step that request leaves the new queue, gets STATUS_IN_PROGRESS and is
\* appended to the in-progress queue, and nothing else changes; a call that
\* finds the new queue empty until its timeout returns null and changes no
\* queue and no request; and at no time do two threads have the same request.
C28_FetchNext ==
    /\ [](\A i, j \in ThreadIds : i # j /\ held(i) # NoId => held(j) # held(i))
    /\ [][\A i \in ThreadIds :
            /\ WorkerProcessorThread_fetch(i) =>
                    LET request == held(i)'
                    IN  /\ request \in _newRequests
                        /\ \A other \in _newRequests :
                                workerRequests[other].priority <= workerRequests[request].priority
                        /\ _newRequests' = _newRequests \ {request}
                        /\ workerRequests' = setStatus(request, "STATUS_IN_PROGRESS")
                        /\ _inProgressRequests' = Append(_inProgressRequests, request)
                        /\ _finishedRequests' = _finishedRequests
                        /\ \A j \in ThreadIds \ {i} : held(j)' = held(j) /\ held(j) # request
            /\ fetchNextForProcessingTimeout(i) =>
                    /\ _newRequests = {}
                    /\ processorCall'.returned = NoId
                    /\ UNCHANGED <<workerRequests, _newRequests, _inProgressRequests,
                                   _finishedRequests, _threads>>]_vars

\* C28 happens: the last fetch gave a thread the request of priority 1 and
\* left the one of priority 0 in the new queue
C28_Witness ==
    /\ processorCall.op = "fetchNextForProcessing"
    /\ processorCall.returned # NoId
    /\ \E i \in ThreadIds :
            /\ held(i) = processorCall.returned
            /\ workerRequests[held(i)]._status = "STATUS_IN_PROGRESS"
            /\ workerRequests[held(i)].priority = 1
            /\ \E other \in _newRequests : workerRequests[other].priority = 0

\* C29: processingRefused(request) takes the request out of the in-progress
\* queue and puts it into the new queue with STATUS_NONE, so that
\* fetchNextForProcessing can start it again; the request is not
\* STATUS_FAILED and not in the finished queue, and no other request changes
\* its status, its fields or its queue.
C29_ProcessingRefused ==
    [][\A id \in WorkerIds :
        processingRefused(id) =>
            /\ id \in Range(_inProgressRequests)
            /\ _inProgressRequests' = RemoveId(_inProgressRequests, id)
            /\ id \notin Range(_inProgressRequests')
            /\ _newRequests' = _newRequests \cup {id}
            /\ workerRequests'[id]._status = "STATUS_NONE"
            /\ sameButStatus(id)
            /\ _finishedRequests' = _finishedRequests
            /\ id \notin Range(_finishedRequests')
            /\ \A other \in DOMAIN workerRequests \ {id} :
                    workerRequests'[other] = workerRequests[other]]_vars

\* C29 happens: the request the last fetch gave to a thread is in the new
\* queue again, with STATUS_NONE, and no thread has it
C29_Witness ==
    /\ processorCall.op = "fetchNextForProcessing"
    /\ processorCall.returned \in _newRequests
    /\ workerRequests[processorCall.returned]._status = "STATUS_NONE"
    /\ processorCall.returned \notin Range(_inProgressRequests)
    /\ \A i \in ThreadIds : held(i) # processorCall.returned

\* some processing thread is still running
someThreadRuns == \E t \in DOMAIN _threads : _threads[t].isRunning

\* C30: the state of the processor changes only from RUNNING to STOPPING, in
\* stop(), from STOPPING to STOPPED, in a call of processorThreadStopped
\* that finds no thread running, and from STOPPED to RUNNING, in run(); no
\* thread runs while the state is STOPPED; and run() called in a state other
\* than STOPPED, or stop() called in a state other than RUNNING, changes
\* neither the state nor the threads nor any queue or request.
C30_ProcessorStates ==
    /\ [](processorState = "STATE_IS_STOPPED" => ~someThreadRuns)
    /\ [][/\ processorState' # processorState =>
                \/ /\ processorState = "STATE_IS_RUNNING"
                   /\ processorState' = "STATE_IS_STOPPING"
                   /\ WorkerProcessor_stop
                \/ /\ processorState = "STATE_IS_STOPPING"
                   /\ processorState' = "STATE_IS_STOPPED"
                   /\ \E i \in ThreadIds : processorThreadStopped(i)
                   /\ ~someThreadRuns
                   /\ ~someThreadRuns'
                \/ /\ processorState = "STATE_IS_STOPPED"
                   /\ processorState' = "STATE_IS_RUNNING"
                   /\ WorkerProcessor_run
          /\ WorkerProcessor_run /\ processorState # "STATE_IS_STOPPED" =>
                UNCHANGED <<processorState, _threads, workerRequests, _newRequests,
                            _inProgressRequests, _finishedRequests>>
          /\ WorkerProcessor_stop /\ processorState # "STATE_IS_RUNNING" =>
                UNCHANGED <<processorState, _threads, workerRequests, _newRequests,
                            _inProgressRequests, _finishedRequests>>]_vars

\* C30 happens: the processor was run and stopped, and is STOPPED now that
\* all its threads have ended
C30_Witness ==
    /\ processorState = "STATE_IS_STOPPED"
    /\ processorCall.op = "stop"
    /\ _threads # <<>>
    /\ ~someThreadRuns

\* C31: lock(chunk, owner) and release(owner) called with the empty string
\* for the owner throw std::invalid_argument and leave the table of locks as
\* it was.
C31_EmptyOwner ==
    [][/\ (/\ lockerCall'.op \in {"lock", "releaseOwner"}
           /\ lockerCall'.owner = EmptyOwner
           /\ lockerCall' # lockerCall)
                => (lockerCall'.threw /\ _chunk2owner' = _chunk2owner)
       /\ \A chunk \in Chunks :
            lock(chunk, EmptyOwner) => (lockerCall'.threw /\ _chunk2owner' = _chunk2owner)
       /\ releaseOwner(EmptyOwner) => (lockerCall'.threw /\ _chunk2owner' = _chunk2owner)]_vars

\* C31 happens: a call with the empty owner threw while chunks were locked,
\* one of them the chunk the call named
C31_Witness ==
    /\ lockerCall.op = "lock"
    /\ lockerCall.owner = EmptyOwner
    /\ lockerCall.threw
    /\ lockerCall.chunk \in DOMAIN _chunk2owner
    /\ \E c \in Chunks \ DOMAIN _chunk2owner : TRUE

\* the chained job c is started in the step
startedInStep(c) == children[c]._state = "CREATED" /\ children'[c]._state # "CREATED"

succeeded(c) == children[c]._state = "FINISHED" /\ children[c]._extendedState = "SUCCESS"

\* the chained job c ended on its own, without success
failedAlone(c) == children[c]._state = "FINISHED" /\ children[c]._extendedState = "SERVER_ERROR"

\* C32: a FindAllJob is started only in a step after which the worker is
\* disabled, and the worker stays disabled; a ReplicateJob is started only
\* when every FindAllJob is FINISHED with SUCCESS; the worker is deleted from
\* the configuration only if permanentDelete is set and every ReplicateJob
\* is FINISHED with SUCCESS, in the step that finishes the job with SUCCESS;
\* the callback of a chained job that did not succeed finishes a job that is
\* not yet finished with FAILED; and once a chained job has failed the job
\* never succeeds and the worker is never deleted.
C32_PhasesInOrder ==
    /\ [](\A c \in FindAllJobIds : children[c]._state # "CREATED" => ~job.workerIsEnabled)
    /\ [](\A c \in ReplicateJobIds : children[c]._state # "CREATED" =>
                \A f \in FindAllJobIds : succeeded(f))
    /\ [](~job.workerIsKnown =>
                /\ job.permanentDelete
                /\ job._state = "FINISHED" /\ job._extendedState = "SUCCESS"
                /\ \A c \in ReplicateJobIds : succeeded(c))
    /\ []((\E c \in FindAllJobIds \cup ReplicateJobIds : failedAlone(c)) =>
                /\ job.workerIsKnown
                /\ ~(job._state = "FINISHED" /\ job._extendedState = "SUCCESS"))
    /\ [][/\ \A c \in FindAllJobIds : startedInStep(c) => ~job'.workerIsEnabled
          /\ \A c \in ReplicateJobIds : startedInStep(c) => \A f \in FindAllJobIds : succeeded(f)
          /\ job.workerIsKnown /\ ~job'.workerIsKnown =>
                /\ job.permanentDelete
                /\ \A c \in ReplicateJobIds : succeeded(c)
                /\ job'._state = "FINISHED" /\ job'._extendedState = "SUCCESS"
          /\ \A e \in jobEntered :
                (/\ DeleteWorkerJob_onFinishLocked(e)
                 /\ job._state # "FINISHED"
                 /\ e.arg.child \in FindAllJobIds \cup ReplicateJobIds
                 /\ ~succeeded(e.arg.child))
                    => (/\ job'._state = "FINISHED"
                        /\ job'._extendedState = "FAILED"
                        /\ job'.workerIsKnown)]_vars

\* C32 happens: the job went through its phases and deleted the worker
C32_Witness ==
    /\ job.kind = "DeleteWorkerJob"
    /\ job._state = "FINISHED" /\ job._extendedState = "SUCCESS"
    /\ job.permanentDelete /\ ~job.workerIsKnown /\ ~job.workerIsEnabled
    /\ \A c \in FindAllJobIds \cup ReplicateJobIds : succeeded(c)

\* the find requests of the VerifyJob that are in flight
findsInFlight == {c \in DOMAIN children : children[c]._state = "IN_PROGRESS"}

\* the step is VerifyJob::onRequestFinish, past both tests of the state
verifyCallback ==
    /\ job._state # "FINISHED"
    /\ \E e \in jobEntered, next \in [ok : BOOLEAN, n : 0..1, asked : {1}] :
            VerifyJob_onRequestFinishLocked(e, next)

\* the first parts of C33: at most maxReplicas find requests are in flight
\* or in the job's collection; a callback that obtains a replica launches
\* exactly one request; and the job becomes FINISHED only in cancel(), in
\* expired(), or in start() or a callback in which nextReplicas failed and
\* after which the collection is empty - whatever the state of the request
\* that reported.
VerifyLoopSafe ==
    /\ [](job._state # "CREATED" =>
            /\ Cardinality(findsInFlight) <= job._maxReplicas
            /\ Cardinality(job._requests) <= job._maxReplicas)
    /\ [][/\ verifyCallback /\ job'.lastNext.ok /\ job'.lastNext.n = 1
                => Cardinality(job'.launched) = Cardinality(job.launched) + 1
          /\ job._state # "FINISHED" /\ job'._state = "FINISHED"
                => \/ \E e \in jobEntered : Job_cancelLocked(e)
                   \/ \E e \in jobEntered : Job_expiredLocked(e)
                   \/ ~job'.lastNext.ok /\ job'._requests = {} /\ findsInFlight' = {}]_vars

\* the last part of C33: a started job whose last call of nextReplicas
\* obtained no replica and that has no request left is FINISHED.
VerifyExhaustedFinishes ==
    [](job._state # "CREATED" /\ job.lastNext.n = 0 /\ job._requests = {} /\ findsInFlight = {}
            => job._state = "FINISHED")

\* C33: a started VerifyJob never has more than maxReplicas find requests in
\* flight, launches one request for each that finishes while a replica can
\* be obtained, is not finished by a failing request, becomes FINISHED only
\* through cancel(), expiration or exhaustion of the replicas, and does
\* become FINISHED when no replica can be obtained and none is in flight.
C33_VerifyLoop == VerifyLoopSafe /\ VerifyExhaustedFinishes



\* C34: no thread ever holds the mutexes of two different objects (a Job's,
\* a Request's, a MessengerConnector's) at the same time
C34_OneMutexPerThread ==
    \A t \in MutexThreads : Cardinality(heldMutexes(t)) <= 1


\* C35: a QservSyncJob or QservGetReplicasJob started when the configuration
\* has no workers (k = 0) becomes FINISHED inside start() with extended
\* state SUCCESS and launches one notification
C35_EmptyFanOut ==
    [][(/\ job.kind \in {"QservSyncJob", "QservGetReplicasJob"}
        /\ job._state = "CREATED"
        /\ Job_start(0, 0, "NONE"))
       => (/\ job'._state = "FINISHED"
           /\ job'._extendedState = "SUCCESS"
           /\ job'.notifying = job.notifying + 1)]_vars


\* C36: a request whose cancellation the worker has accepted (its status is
\* STATUS_IS_CANCELLING or STATUS_CANCELLED) never goes back to STATUS_NONE
\* or STATUS_IN_PROGRESS, also not when its thread hands it back with
\* processingRefused during shutdown
C36_CancellationKept ==
    [][\A id \in DOMAIN workerRequests :
          (/\ workerRequests[id]._status \in {"STATUS_IS_CANCELLING", "STATUS_CANCELLED"}
           /\ id \in DOMAIN workerRequests')
          => workerRequests'[id]._status \in {"STATUS_IS_CANCELLING", "STATUS_CANCELLED"}]_vars

\* WorkerProcessor::checkStatusImpl: what the call comes to for a request id
checkStatusImpl(id) ==
    LET status == workerRequests[id]._status
    IN  IF id \in _newRequests
        THEN IF status = "STATUS_NONE" THEN "found" ELSE "logic_error"
        ELSE IF id \in Range(_inProgressRequests)
        THEN IF status \in {"STATUS_IS_CANCELLING", "STATUS_IN_PROGRESS", "STATUS_CANCELLED",
                            "STATUS_SUCCEEDED", "STATUS_FAILED"}
             THEN "found" ELSE "logic_error"
        ELSE IF id \in Range(_finishedRequests)
        THEN IF status \in {"STATUS_CANCELLED", "STATUS_SUCCEEDED", "STATUS_FAILED"}
             THEN "found" ELSE "logic_error"
        ELSE "null"

\* C37: every request the processor has accepted is in one of its queues
\* with a status that fits the queue, so that checkStatusImpl never comes
\* to its "unexpected request status" std::logic_error
C37_QueuesConsistent ==
    \A id \in DOMAIN workerRequests : checkStatusImpl(id) = "found"


\* the connector holds requests, queued or as the current one, and no
\* resolve, connect, send, receive or timer operation is pending: nothing
\* will call it again
stuck ==
    /\ _requests # <<>> \/ _currentRequest # NoId
    /\ asyncOps = EmptyBag

\* C38: the connector never holds requests while no operation is pending
C38_NeverStuck == ~stuck


\* C39: when QservMgtServices returns a null pointer for a worker, start()
\* of the QservSyncJob leaves the job FINISHED with FAILED and none of the
\* requests it launched IN_PROGRESS
C39_NullRequestFails ==
    [][\A k \in 1..MaxChildren, nulls \in SUBSET ChildIds :
          (/\ nulls # {}
           /\ job._state = "CREATED"
           /\ QservSyncJob_start(k, nulls))
          => (/\ job'._state = "FINISHED"
              /\ job'._extendedState = "FAILED"
              /\ \A c \in ChildIds : children'[c]._state # "IN_PROGRESS")]_vars


\* C40: whenever the Job is FINISHED its end time has been recorded
C40_EndTimeRecorded ==
    (focus = "job" /\ job._state = "FINISHED") => job._endTime = "set"

====
